---- MODULE Spec2Model ----
(***************************************************************************)
(* A state-machine model of the atlantica2 battle simulator:               *)
(*   formulas/  stat evaluator, K lookup, multi-hit roll                    *)
(*   core/rng   the seeded sequential random source                         *)
(*   model/     Board exposure, Unit.recompute_stats                        *)
(*   rules/     status pipeline, targeting, two-turn tick, turn order       *)
(*   sim/       BattleEngine.step_team_turn                                 *)
(* Numbers the program keeps as floats are IEEE 754 binary64 values here.   *)
(***************************************************************************)
EXTENDS Integers, Sequences, FiniteSets, TLC

VARIABLES
    inp,        \* the arguments of the call a formula specification is about to make
    ret,        \* the last operation called and what it returned
    rng,        \* RNG._random: the state of the seeded sequential source
    board,      \* Board.team_a / Board.team_b: (team, slot) -> Unit or NoUnit
    team_turn,  \* BattleState.team_turn
    starts_team,\* BattleState.starts_team
    phase,      \* position inside BattleEngine.step_team_turn / run
    actors,     \* the actors of the running team-turn still to act
    winner,     \* what the last step_team_turn returned ("" while none)
    runs        \* the steps the loop of run has made; or two runs of one battle
                \* set-up, side by side

vars == <<inp, ret, rng, board, team_turn, starts_team, phase, actors, winner, runs>>

----------------------------------------------------------------------------
(* Bounds of the model *)

\* number of equally spaced values of [0, 1) a draw is compared over
DrawGrid == 16
\* longest modifier list handed to evaluate_stat
MaxMods == 2
\* highest level looked up in the K table beyond its top range
LevelsAbove == 3

----------------------------------------------------------------------------
(* Python floats: IEEE 754 binary64, every operation rounded to nearest, ties
   to even.  A float is [s, m, e], the number (-1)^s * m * 2^e, with m a
   natural number that is odd or zero (so each float has one record, the two
   zeros apart).  The exponents of the program's values stay far from the
   limits of the format: infinities, NaN and subnormals do not occur. *)

Abs(x) == IF x < 0 THEN -x ELSE x

\* the element of a one-element set; Only({ e(x) : x \in {v} }) is e at the value
\* of v, with v computed once however often e uses it
Only(S) == CHOOSE r \in S : TRUE

TwoTo(k) == 2 ^ k

\* n.bit_length()
RECURSIVE BitLength(_)
BitLength(n) == IF n = 0 THEN 0 ELSE 1 + BitLength(n \div 2)

\* a natural number of any size is the sequence of its digits to the base
\* Limb, the lowest first and the highest not 0; zero is the empty sequence
Limb == TwoTo(14)
LimbBits == BitLength(Limb) - 1

\* the bits of the significand of a binary64, the leading one included
Precision == 52 + 1

RECURSIVE NatOfInt(_)
NatOfInt(n) == IF n = 0 THEN << >> ELSE << n % Limb >> \o NatOfInt(n \div Limb)

RECURSIVE IntOfNat(_)
IntOfNat(a) == IF a = << >> THEN 0 ELSE a[1] + Limb * IntOfNat(Tail(a))

RECURSIVE NatTrim(_)
NatTrim(a) ==
    IF a # << >> /\ a[Len(a)] = 0 THEN NatTrim(SubSeq(a, 1, Len(a) - 1)) ELSE a

Digit(a, i) == IF i <= Len(a) THEN a[i] ELSE 0

RECURSIVE NatAddFrom(_, _, _, _)
NatAddFrom(a, b, i, carry) ==
    IF i > Len(a) /\ i > Len(b) THEN (IF carry = 0 THEN << >> ELSE << carry >>)
    ELSE Only({ << d % Limb >> \o NatAddFrom(a, b, i + 1, d \div Limb)
                : d \in {Digit(a, i) + Digit(b, i) + carry} })

NatAdd(a, b) == NatAddFrom(a, b, 1, 0)

RECURSIVE NatSubFrom(_, _, _, _)
NatSubFrom(a, b, i, borrow) ==
    IF i > Len(a) THEN << >>
    ELSE Only({ << d % Limb >> \o NatSubFrom(a, b, i + 1, IF d < 0 THEN 1 ELSE 0)
                : d \in {Digit(a, i) - Digit(b, i) - borrow} })

\* a - b for a >= b
NatSub(a, b) == NatTrim(NatSubFrom(a, b, 1, 0))

RECURSIVE NatCmpFrom(_, _, _)
NatCmpFrom(a, b, i) ==
    IF i = 0 THEN 0
    ELSE IF a[i] # b[i] THEN (IF a[i] < b[i] THEN -1 ELSE 1)
    ELSE NatCmpFrom(a, b, i - 1)

\* -1, 0, 1 as a is below, equal to, above b
NatCmp(a, b) ==
    IF Len(a) # Len(b) THEN (IF Len(a) < Len(b) THEN -1 ELSE 1)
    ELSE NatCmpFrom(a, b, Len(a))

RECURSIVE NatMulDigitFrom(_, _, _, _)
NatMulDigitFrom(a, d, i, carry) ==
    IF i > Len(a) THEN (IF carry = 0 THEN << >> ELSE << carry >>)
    ELSE Only({ << p % Limb >> \o NatMulDigitFrom(a, d, i + 1, p \div Limb)
                : p \in {a[i] * d + carry} })

\* a * d for a digit d
NatMulDigit(a, d) == IF d = 0 THEN << >> ELSE NatMulDigitFrom(a, d, 1, 0)

RECURSIVE NatMulFrom(_, _, _)
NatMulFrom(a, b, j) ==
    IF j > Len(b) THEN << >>
    ELSE NatAdd(NatMulDigit(a, b[j]), << 0 >> \o NatMulFrom(a, b, j + 1))

NatMul(a, b) == NatTrim(NatMulFrom(a, b, 1))

\* a * 2^k
NatShl(a, k) ==
    IF a = << >> THEN << >>
    ELSE [i \in 1 .. (k \div LimbBits) |-> 0] \o NatMulDigit(a, TwoTo(k % LimbBits))

\* a \div 2^k
NatShr(a, k) ==
    IF k \div LimbBits >= Len(a) THEN << >>
    ELSE Only({ NatTrim([i \in 1 .. Len(d) |->
                            (d[i] \div TwoTo(k % LimbBits))
                                + (Digit(d, i + 1) % TwoTo(k % LimbBits))
                                    * TwoTo(LimbBits - (k % LimbBits))])
                : d \in {SubSeq(a, (k \div LimbBits) + 1, Len(a))} })

\* bit k of a, the lowest being bit 0
NatBit(a, k) == (Digit(a, (k \div LimbBits) + 1) \div TwoTo(k % LimbBits)) % 2

\* a % 2^k # 0
NatLowNonzero(a, k) ==
    \E i \in 1 .. Len(a) :
        /\ a[i] # 0
        /\ \/ i <= k \div LimbBits
           \/ i = (k \div LimbBits) + 1 /\ a[i] % TwoTo(k % LimbBits) # 0

NatBitLen(a) ==
    IF a = << >> THEN 0 ELSE LimbBits * (Len(a) - 1) + BitLength(a[Len(a)])

RECURSIVE LowZeros(_)
LowZeros(n) == IF n % 2 = 1 THEN 0 ELSE 1 + LowZeros(n \div 2)

\* the number of zero bits below the lowest one bit of a # 0, from digit i on
RECURSIVE NatLowZerosFrom(_, _)
NatLowZerosFrom(a, i) ==
    IF a[i] # 0 THEN LowZeros(a[i]) ELSE LimbBits + NatLowZerosFrom(a, i + 1)

\* the digits i down to 1 of a divided by the digit d, rem carried in
RECURSIVE NatDivDigitFrom(_, _, _, _)
NatDivDigitFrom(a, d, i, rem) ==
    IF i = 0 THEN [q |-> << >>, r |-> NatOfInt(rem)]
    ELSE Only({ Only({ [q |-> Append(rest.q, c \div d), r |-> rest.r]
                       : rest \in {NatDivDigitFrom(a, d, i - 1, c % d)} })
                : c \in {rem * Limb + a[i]} })

\* the bits j down to 0 of the digit c brought down, one by one, onto the
\* remainder of a division by d: the quotient digit and the remainder
RECURSIVE NatDivBitsFrom(_, _, _, _)
NatDivBitsFrom(c, d, j, acc) ==
    Only({ IF j < 0 THEN st
           ELSE Only({ NatDivBitsFrom(c, d, j - 1,
                           IF NatCmp(r, d) >= 0
                           THEN [q |-> (2 * st.q) + 1, r |-> NatSub(r, d)]
                           ELSE [q |-> 2 * st.q, r |-> r])
                       : r \in {NatAdd(NatMulDigit(st.r, 2),
                                       NatOfInt((c \div TwoTo(j)) % 2))} })
           : st \in {acc} })

\* the digits i down to 1 of n divided by d, rem carried in
RECURSIVE NatDivFrom(_, _, _, _)
NatDivFrom(n, d, i, rem) ==
    IF i = 0 THEN [q |-> << >>, r |-> rem]
    ELSE Only({ Only({ [q |-> Append(rest.q, st.q), r |-> rest.r]
                       : rest \in {NatDivFrom(n, d, i - 1, st.r)} })
                : st \in {NatDivBitsFrom(n[i], d, LimbBits - 1, [q |-> 0, r |-> rem])} })

\* quotient and remainder of n by d # 0
NatDivMod(n, d) ==
    Only({ [q |-> NatTrim(x.q), r |-> x.r]
           : x \in {IF Len(d) = 1 THEN NatDivDigitFrom(n, d[1], Len(n), 0)
                    ELSE NatDivFrom(n, d, Len(n), << >>)} })

FZero(s) == [s |-> s, m |-> << >>, e |-> 0]

\* the float (-1)^s * m * 2^e for m of at most Precision bits
FCanon(s, m0, e) ==
    Only({ IF m = << >> THEN FZero(s)
           ELSE Only({ [s |-> s, m |-> NatShr(m, z), e |-> e + z]
                       : z \in {NatLowZerosFrom(m, 1)} })
           : m \in {m0} })

\* the float nearest to (-1)^s * (m + t) * 2^e, where 0 <= t < 1 and t > 0
\* exactly when sticky (and then m has more than Precision + 1 bits); of two
\* floats as near, the one with the even significand
FNearest(s, m0, e, sticky) ==
    Only({ IF NatBitLen(m) <= Precision THEN FCanon(s, m, e)
           ELSE Only({ FCanon(s,
                              IF /\ NatBit(m, k - 1) = 1
                                 /\ (sticky \/ NatLowNonzero(m, k - 1) \/ NatBit(m, k) = 1)
                              THEN NatAdd(NatShr(m, k), << 1 >>)
                              ELSE NatShr(m, k),
                              e + k)
                       : k \in {NatBitLen(m) - Precision} })
           : m \in {m0} })

\* float(i) of an integer i (an integer of one digit has its float at once)
FInt(i) ==
    IF i = 0 THEN FZero(0)
    ELSE IF Abs(i) < Limb
    THEN Only({ [s |-> IF i < 0 THEN 1 ELSE 0, m |-> << Abs(i) \div TwoTo(z) >>, e |-> z]
                : z \in {LowZeros(Abs(i))} })
    ELSE FCanon(IF i < 0 THEN 1 ELSE 0, NatOfInt(Abs(i)), 0)

FNeg(x) == [x EXCEPT !.s = 1 - @]

\* x + y
FAdd(x0, y0) ==
    Only({ IF p.x.m = << >> /\ p.y.m = << >>
           THEN FZero(IF p.x.s = 1 /\ p.y.s = 1 THEN 1 ELSE 0)
           ELSE IF p.x.m = << >> THEN p.y
           ELSE IF p.y.m = << >> THEN p.x
           ELSE Only({ IF p.x.s = p.y.s THEN FNearest(p.x.s, NatAdd(a.x, a.y), a.e, FALSE)
                       ELSE CASE NatCmp(a.x, a.y) = 0 -> FZero(0)
                              [] NatCmp(a.x, a.y) > 0 ->
                                    FNearest(p.x.s, NatSub(a.x, a.y), a.e, FALSE)
                              [] OTHER -> FNearest(p.y.s, NatSub(a.y, a.x), a.e, FALSE)
                       : a \in {[x |-> NatShl(p.x.m, p.x.e - (IF p.x.e < p.y.e THEN p.x.e ELSE p.y.e)),
                                 y |-> NatShl(p.y.m, p.y.e - (IF p.x.e < p.y.e THEN p.x.e ELSE p.y.e)),
                                 e |-> IF p.x.e < p.y.e THEN p.x.e ELSE p.y.e]} })
           : p \in {[x |-> x0, y |-> y0]} })

\* x - y
FSub(x, y) == FAdd(x, FNeg(y))

\* x * y
FMul(x0, y0) ==
    Only({ IF p.x.m = << >> \/ p.y.m = << >> THEN FZero((p.x.s + p.y.s) % 2)
           ELSE FNearest((p.x.s + p.y.s) % 2, NatMul(p.x.m, p.y.m), p.x.e + p.y.e, FALSE)
           : p \in {[x |-> x0, y |-> y0]} })

\* x / y for y # 0: the quotient of the significands to Precision + 2 bits or
\* more, what is left of the division being sticky
FDiv(x0, y0) ==
    Only({ IF p.x.m = << >> THEN FZero((p.x.s + p.y.s) % 2)
           ELSE Only({ Only({ FNearest((p.x.s + p.y.s) % 2, d.q, p.x.e - p.y.e - k, d.r # << >>)
                              : d \in {NatDivMod(NatShl(p.x.m, k), p.y.m)} })
                       : k \in {Precision + 2 + NatBitLen(p.y.m)} })
           : p \in {[x |-> x0, y |-> y0]} })

\* the float nearest to n / d: what a decimal literal of that value is read as
FLit(n, d) == FDiv(FInt(n), FInt(d))

FSign(x) == IF x.m = << >> THEN 0 ELSE IF x.s = 1 THEN -1 ELSE 1

\* -1, 0, 1 as |x| is below, equal to, above |y|, for x and y not zero
FCmpAbs(x, y) ==
    IF x.e + NatBitLen(x.m) # y.e + NatBitLen(y.m)
    THEN (IF x.e + NatBitLen(x.m) < y.e + NatBitLen(y.m) THEN -1 ELSE 1)
    ELSE IF x.e < y.e THEN NatCmp(x.m, NatShl(y.m, y.e - x.e))
    ELSE NatCmp(NatShl(x.m, x.e - y.e), y.m)

\* -1, 0, 1 as x < y, x == y, x > y
FCmp(x0, y0) ==
    Only({ IF FSign(p.x) # FSign(p.y) THEN (IF FSign(p.x) < FSign(p.y) THEN -1 ELSE 1)
           ELSE IF FSign(p.x) = 0 THEN 0
           ELSE FSign(p.x) * FCmpAbs(p.x, p.y)
           : p \in {[x |-> x0, y |-> y0]} })

FLt(x, y) == FCmp(x, y) < 0
FLe(x, y) == FCmp(x, y) <= 0
FEq(x, y) == FCmp(x, y) = 0

\* max(x, y) and min(x, y) of Python: the first argument unless the second is
\* strictly beyond it
FMax(x0, y0) == Only({ IF FLt(p.x, p.y) THEN p.y ELSE p.x : p \in {[x |-> x0, y |-> y0]} })
FMin(x0, y0) == Only({ IF FLt(p.y, p.x) THEN p.y ELSE p.x : p \in {[x |-> x0, y |-> y0]} })

\* the whole part of |x|
FWhole(x) == IF x.e >= 0 THEN IntOfNat(NatShl(x.m, x.e)) ELSE IntOfNat(NatShr(x.m, -x.e))

\* int(x): towards zero
FTrunc(x0) == Only({ (IF x.s = 1 THEN -1 ELSE 1) * FWhole(x) : x \in {x0} })

\* math.floor(x)
FFloor(x0) ==
    Only({ IF x.s = 1 /\ x.e < 0 THEN -(FWhole(x) + 1)
           ELSE (IF x.s = 1 THEN -1 ELSE 1) * FWhole(x) : x \in {x0} })

\* round(x): the nearest integer, of two as near the even one
FRound(x0) ==
    Only({ IF x.e >= 0 THEN (IF x.s = 1 THEN -1 ELSE 1) * FWhole(x)
           ELSE Only({ (IF x.s = 1 THEN -1 ELSE 1)
                          * (IF /\ NatBit(x.m, (-x.e) - 1) = 1
                                /\ (NatLowNonzero(x.m, (-x.e) - 1) \/ w % 2 = 1)
                             THEN w + 1 ELSE w)
                       : w \in {FWhole(x)} })
           : x \in {x0} })

\* an absent optional value is the empty tuple, a present one a 1-tuple
None == << >>
Some(x) == << x >>

----------------------------------------------------------------------------
(* formulas/stats.py *)

UpperCase == "ABCDEFGHIJKLMNOPQRSTUVWXYZ"
LowerCase == "abcdefghijklmnopqrstuvwxyz"

CharAt(s, i) == SubSeq(s, i, i)

\* str.lower() on one character
LowerChar(c) ==
    IF \E i \in 1 .. Len(UpperCase) : CharAt(UpperCase, i) = c
    THEN CharAt(LowerCase, CHOOSE i \in 1 .. Len(UpperCase) : CharAt(UpperCase, i) = c)
    ELSE c

RECURSIVE LowerStr(_)
LowerStr(s) == IF s = "" THEN "" ELSE LowerChar(Head(s)) \o LowerStr(Tail(s))

\* the whitespace str.strip() removes, as far as a string here can hold it
WhiteSpace == {" ", "\t", "\n", "\r", "\f"}

RECURSIVE LStrip(_)
LStrip(s) == IF s # "" /\ CharAt(s, 1) \in WhiteSpace THEN LStrip(Tail(s)) ELSE s

RECURSIVE RStrip(_)
RStrip(s) ==
    IF s # "" /\ CharAt(s, Len(s)) \in WhiteSpace THEN RStrip(SubSeq(s, 1, Len(s) - 1)) ELSE s

\* str.strip()
Strip(s) == RStrip(LStrip(s))

\* s.split(".")[-1]
AfterLastDot(s) ==
    LET dots == { i \in 1 .. Len(s) : CharAt(s, i) = "." }
    IN  IF dots = {} THEN s
        ELSE SubSeq(s, (CHOOSE i \in dots : \A j \in dots : j <= i) + 1, Len(s))

\* _norm_tag: str(tag).lower(), keeping what follows the last "."
NormTag(tag) == AfterLastDot(LowerStr(tag))

ModMatchesAny(m, stat_key) == TRUE

\* "if s != stat_key: continue"
ModMatches(m, stat_key) == m.stat = stat_key

\* a plausible slip: the value of a less line is used with the sign it came with
RECURSIVE EvalLoopLessAsGiven(_, _, _, _)
EvalLoopLessAsGiven(stat_key, mods, i, acc) ==
    IF i > Len(mods) THEN acc
    ELSE LET m == mods[i]
             tag == NormTag(m.tag)
             v == FInt(m.value)
             nxt ==
                IF ~ModMatches(m, stat_key) THEN acc
                ELSE CASE tag = "base" -> [acc EXCEPT !.base_add = FAdd(@, v)]
                       [] tag = "inc"  -> [acc EXCEPT !.inc_sum = FAdd(@, v)]
                       [] tag = "more" ->
                            [acc EXCEPT !.more_mul = FMul(@, FAdd(FInt(1), FDiv(v, FInt(100))))]
                       [] tag = "less" ->
                            [acc EXCEPT !.less_mul = FMul(@, FAdd(FInt(1), FDiv(v, FInt(100))))]
                       [] OTHER -> acc
         IN  EvalLoopLessAsGiven(stat_key, mods, i + 1, nxt)

\* the loop of evaluate_stat over mods[i..]: acc = [base_add, inc_sum, more_mul, less_mul]
RECURSIVE EvalLoop(_, _, _, _)
EvalLoop(stat_key, mods, i, acc) ==
    IF i > Len(mods) THEN acc
    ELSE LET m == mods[i]
             tag == NormTag(m.tag)
             v == FInt(m.value)
             vv == IF m.value <= 0 THEN v ELSE FInt(-m.value)
             nxt ==
                IF ~ModMatches(m, stat_key) THEN acc
                ELSE CASE tag = "base" -> [acc EXCEPT !.base_add = FAdd(@, v)]
                       [] tag = "inc"  -> [acc EXCEPT !.inc_sum = FAdd(@, v)]
                       [] tag = "more" ->
                            [acc EXCEPT !.more_mul = FMul(@, FAdd(FInt(1), FDiv(v, FInt(100))))]
                       [] tag = "less" ->
                            [acc EXCEPT !.less_mul = FMul(@, FAdd(FInt(1), FDiv(vv, FInt(100))))]
                       [] OTHER -> acc
         IN  EvalLoop(stat_key, mods, i + 1, nxt)

ClampMinStep(out, clamp_min) == IF clamp_min # None THEN FMax(clamp_min[1], out) ELSE out

ClampMaxStep(out, clamp_max) == IF clamp_max # None THEN FMin(clamp_max[1], out) ELSE out

EvalProduct(base_value, acc) ==
    FMul(FMul(FMul(FAdd(base_value, acc.base_add),
                   FAdd(FInt(1), FDiv(acc.inc_sum, FInt(100)))),
              acc.more_mul),
         acc.less_mul)

evaluate_stat(stat_key, base_value, mods, clamp_min, clamp_max) ==
    LET acc == EvalLoop(stat_key, mods, 1,
                   [base_add |-> FInt(0), inc_sum |-> FInt(0),
                    more_mul |-> FInt(1), less_mul |-> FInt(1)])
    IN  Only({ ClampMaxStep(ClampMinStep(out, clamp_min), clamp_max) :
               out \in {EvalProduct(base_value, acc)} })

\* formulas/ap.py
compute_ap_gain(mods, base_ap_gain) ==
    evaluate_stat("ap_gain", base_ap_gain, mods, Some(FInt(0)), None)

----------------------------------------------------------------------------
(* data/progression.py, formulas/progression.py *)

KRange(lo, hi, k) == [level_min |-> lo, level_max |-> hi, k |-> k]

K_TABLE ==
    << KRange(1, 9, 4), KRange(10, 19, 126), KRange(20, 29, 358),
       KRange(30, 39, 657), KRange(40, 49, 1012), KRange(50, 59, 1414),
       KRange(60, 69, 1859), KRange(70, 79, 2343), KRange(80, 89, 2862),
       KRange(90, 99, 3415), KRange(100, 100, 4000) >>

InRangeOpen(r, level) == r.level_min <= level /\ level < r.level_max

InRange(r, level) == r.level_min <= level /\ level <= r.level_max

RECURSIVE KScan(_, _, _)
KScan(table, i, level) ==
    IF i > Len(table)
    THEN IF level < table[1].level_min THEN table[1].k ELSE table[Len(table)].k
    ELSE IF InRange(table[i], level) THEN table[i].k
         ELSE KScan(table, i + 1, level)

\* the result is [err, k]: err is "ValueError" when the lookup raises
get_k_from_table(level, table) ==
    IF level <= 0 THEN [err |-> "ValueError", k |-> 0]
    ELSE [err |-> "", k |-> KScan(table, 1, level)]

get_k(level) == get_k_from_table(level, K_TABLE)

----------------------------------------------------------------------------
(* core/rng.py: RNG wraps random.Random(seed), the Mersenne Twister of the  *)
(* standard library. Its state after seeding is a function of the seed, and  *)
(* every method consumes 32-bit outputs of the generator in order; the state *)
(* is kept as the outputs the generator gives, from the first on, and the    *)
(* number of them consumed so far.                                           *)

\* the largest seed the formula calls are made with
MaxSeed == 15

\* the first outputs of random.Random(seed), each 32-bit output as its upper and
\* lower 16 bits
MtWords ==
    (0 :> <<
        <<55340, 1997>>, <<25247, 28606>>, <<49673, 19628>>, <<58343, 1666>>,
        <<27562, 37973>>, <<2653, 12084>>, <<16968, 24122>>, <<63272, 46330>>,
        <<33506, 58978>>, <<31845, 49637>>, <<26537, 50040>>, <<60177, 26547>>,
        <<51367, 1593>>, <<54385, 15712>>, <<19877, 59145>>, <<63425, 48519>>,
        <<31234, 16900>>, <<23465, 8111>>, <<38232, 34431>>, <<58435, 57208>>,
        <<59514, 5651>>, <<14315, 56537>>, <<33075, 10358>>, <<9127, 28954>> >>) @@
    (1 :> <<
        <<8805, 45557>>, <<37303, 22602>>, <<55537, 27359>>, <<52577, 15920>>,
        <<50054, 48068>>, <<4135, 50385>>, <<16716, 13372>>, <<7727, 60297>>,
        <<32468, 54651>>, <<49870, 28484>>, <<29457, 55459>>, <<30949, 4193>>,
        <<42702, 52251>>, <<24878, 30358>>, <<51689, 50710>>, <<13759, 39213>>,
        <<6151, 11916>>, <<31972, 11394>>, <<1857, 51112>>, <<58544, 27878>>,
        <<54772, 46002>>, <<25546, 33421>>, <<28361, 53894>>, <<39809, 3702>> >>) @@
    (2 :> <<
        <<62654, 43379>>, <<56564, 48025>>, <<62116, 53883>>, <<55643, 45000>>,
        <<3706, 9887>>, <<6002, 6611>>, <<5562, 11229>>, <<23662, 17207>>,
        <<54755, 16676>>, <<11081, 4164>>, <<48232, 34680>>, <<53016, 8959>>,
        <<43891, 29583>>, <<55956, 58344>>, <<20194, 2040>>, <<16487, 50008>>,
        <<39711, 10286>>, <<13907, 63709>>, <<39767, 23505>>, <<2341, 58484>>,
        <<38089, 51536>>, <<44646, 9845>>, <<10379, 51073>>, <<65517, 37429>> >>) @@
    (3 :> <<
        <<15595, 16381>>, <<38839, 20626>>, <<35666, 39754>>, <<8547, 25449>>,
        <<24245, 24996>>, <<60027, 23541>>, <<39578, 33021>>, <<31067, 37534>>,
        <<41007, 13478>>, <<38066, 47357>>, <<4294, 32729>>, <<39688, 37437>>,
        <<862, 64037>>, <<59560, 21151>>, <<54884, 24489>>, <<30751, 40024>>,
        <<16997, 1604>>, <<36096, 14572>>, <<15357, 7475>>, <<12566, 9255>>,
        <<65250, 38006>>, <<46999, 902>>, <<30819, 12404>>, <<35453, 17333>> >>) @@
    (4 :> <<
        <<15469, 42455>>, <<19876, 63996>>, <<6761, 5831>>, <<47265, 43981>>,
        <<25956, 4777>>, <<31383, 50755>>, <<10156, 17242>>, <<5904, 53075>>,
        <<4359, 8753>>, <<1298, 48403>>, <<26318, 43830>>, <<36005, 39270>>,
        <<60159, 6665>>, <<18964, 34666>>, <<52458, 29183>>, <<64882, 17490>>,
        <<50145, 45656>>, <<3856, 39366>>, <<14544, 18668>>, <<34100, 62551>>,
        <<35171, 56430>>, <<23609, 691>>, <<18132, 44154>>, <<51101, 26515>> >>) @@
    (5 :> <<
        <<40822, 31813>>, <<16740, 55353>>, <<48613, 49305>>, <<23496, 64444>>,
        <<52113, 52791>>, <<45249, 8158>>, <<61764, 27626>>, <<55149, 17200>>,
        <<48489, 65065>>, <<42731, 35998>>, <<60445, 32160>>, <<34736, 45349>>,
        <<1900, 58095>>, <<55073, 3583>>, <<30515, 3035>>, <<50853, 14455>>,
        <<61823, 54132>>, <<16321, 59958>>, <<42531, 12885>>, <<3398, 16696>>,
        <<59041, 27195>>, <<10279, 26765>>, <<7419, 4342>>, <<24365, 55679>> >>) @@
    (6 :> <<
        <<51992, 22014>>, <<37605, 57320>>, <<53867, 38038>>, <<5280, 13673>>,
        <<31787, 15038>>, <<49952, 42099>>, <<17145, 41017>>, <<2413, 14135>>,
        <<29, 39560>>, <<9540, 39367>>, <<43438, 31284>>, <<38435, 55247>>,
        <<30818, 38178>>, <<63276, 11302>>, <<49789, 46316>>, <<48158, 15041>>,
        <<24455, 28721>>, <<20931, 16976>>, <<50471, 57977>>, <<1434, 37345>>,
        <<17871, 35492>>, <<32036, 45974>>, <<52554, 21847>>, <<12983, 8847>> >>) @@
    (7 :> <<
        <<21222, 46136>>, <<62119, 19940>>, <<9886, 3383>>, <<25875, 9998>>,
        <<42659, 42064>>, <<3164, 32720>>, <<4747, 12083>>, <<53823, 2084>>,
        <<35119, 36907>>, <<6168, 59409>>, <<23965, 51704>>, <<38193, 39005>>,
        <<3801, 1141>>, <<59618, 23956>>, <<33255, 20213>>, <<14070, 30156>>,
        <<2457, 20696>>, <<5632, 41818>>, <<28419, 26458>>, <<27405, 21659>>,
        <<4578, 2959>>, <<15772, 5924>>, <<5944, 63449>>, <<36113, 28366>> >>) @@
    (8 :> <<
        <<14857, 25907>>, <<24275, 20453>>, <<63064, 63399>>, <<24600, 13932>>,
        <<8279, 14545>>, <<12656, 6054>>, <<46190, 57818>>, <<2869, 4272>>,
        <<5582, 45985>>, <<8968, 9426>>, <<16216, 19156>>, <<53167, 16>>,
        <<65478, 58204>>, <<33184, 54707>>, <<13723, 5448>>, <<26260, 61993>>,
        <<42065, 32108>>, <<1985, 21617>>, <<30089, 51786>>, <<31942, 25065>>,
        <<29696, 31924>>, <<25590, 23976>>, <<32439, 12162>>, <<37560, 20653>> >>) @@
    (9 :> <<
        <<30343, 42606>>, <<40187, 44142>>, <<24465, 24304>>, <<17506, 60412>>,
        <<9079, 20906>>, <<12199, 12807>>, <<56790, 65365>>, <<44344, 33630>>,
        <<421, 47696>>, <<22172, 32822>>, <<32950, 21382>>, <<30390, 29777>>,
        <<58870, 56093>>, <<39629, 35533>>, <<5296, 17623>>, <<21890, 39138>>,
        <<36324, 43847>>, <<61366, 64510>>, <<40412, 50936>>, <<45881, 42102>>,
        <<2680, 9487>>, <<47722, 52844>>, <<24839, 28099>>, <<11102, 47776>> >>) @@
    (10 :> <<
        <<37447, 28883>>, <<2135, 32433>>, <<28107, 44112>>, <<31625, 10604>>,
        <<37885, 51896>>, <<972, 3879>>, <<13506, 55936>>, <<30315, 44295>>,
        <<53301, 53849>>, <<32197, 39482>>, <<53974, 47223>>, <<18187, 38917>>,
        <<42825, 63941>>, <<53124, 46723>>, <<10500, 52719>>, <<2254, 44089>>,
        <<34122, 38487>>, <<32118, 16313>>, <<21480, 60227>>, <<4986, 38775>>,
        <<16383, 51248>>, <<62416, 28550>>, <<62443, 53010>>, <<48860, 9702>> >>) @@
    (11 :> <<
        <<29647, 9581>>, <<56737, 18764>>, <<36685, 15911>>, <<56155, 24491>>,
        <<60569, 4237>>, <<51197, 59397>>, <<30516, 55233>>, <<29611, 18550>>,
        <<33281, 58045>>, <<56036, 17744>>, <<38494, 55858>>, <<12445, 27513>>,
        <<12101, 59000>>, <<52684, 26921>>, <<33548, 29122>>, <<31179, 40582>>,
        <<41279, 65145>>, <<40236, 26605>>, <<51968, 34899>>, <<12201, 5157>>,
        <<6168, 31123>>, <<29267, 60870>>, <<19883, 46209>>, <<9292, 44956>> >>) @@
    (12 :> <<
        <<31101, 30430>>, <<17628, 55914>>, <<43088, 7724>>, <<34677, 7500>>,
        <<43673, 57465>>, <<22923, 35035>>, <<9345, 29925>>, <<25011, 14847>>,
        <<711, 49138>>, <<65314, 41595>>, <<24559, 59665>>, <<31623, 43490>>,
        <<17960, 1243>>, <<42166, 28556>>, <<53106, 63576>>, <<30160, 56678>>,
        <<45258, 44572>>, <<56645, 44828>>, <<39417, 5809>>, <<14918, 59056>>,
        <<36581, 35590>>, <<109, 11463>>, <<43340, 22201>>, <<40909, 47585>> >>) @@
    (13 :> <<
        <<16974, 24955>>, <<19055, 6282>>, <<44909, 4428>>, <<59607, 40777>>,
        <<44831, 65037>>, <<52560, 11586>>, <<55662, 6189>>, <<58326, 58553>>,
        <<12171, 40605>>, <<42730, 7181>>, <<15109, 58258>>, <<43659, 8975>>,
        <<9644, 17824>>, <<56965, 60304>>, <<14756, 18209>>, <<42005, 50376>>,
        <<48104, 63629>>, <<12279, 49404>>, <<8533, 42012>>, <<4641, 46498>>,
        <<34820, 15967>>, <<55429, 48044>>, <<14018, 42183>>, <<48804, 9582>> >>) @@
    (14 :> <<
        <<7001, 7541>>, <<40362, 14309>>, <<46044, 42250>>, <<49493, 8625>>,
        <<42732, 14785>>, <<34544, 52782>>, <<61626, 61242>>, <<16183, 9751>>,
        <<17767, 52913>>, <<48177, 39316>>, <<16762, 33029>>, <<19072, 1606>>,
        <<48107, 20623>>, <<4759, 39932>>, <<43152, 11826>>, <<29474, 17149>>,
        <<19856, 40626>>, <<30580, 19658>>, <<44841, 59128>>, <<57201, 17116>>,
        <<25996, 26466>>, <<25808, 46351>>, <<50955, 21439>>, <<59567, 12535>> >>) @@
    (15 :> <<
        <<63258, 7164>>, <<13695, 48218>>, <<763, 52559>>, <<34165, 1569>>,
        <<48233, 62053>>, <<2370, 56326>>, <<10355, 34178>>, <<59835, 18026>>,
        <<64640, 48659>>, <<15659, 54129>>, <<1106, 19068>>, <<3601, 5632>>,
        <<57638, 22257>>, <<52748, 16136>>, <<44652, 65365>>, <<9650, 4458>>,
        <<56186, 51800>>, <<45532, 60480>>, <<65523, 62700>>, <<24070, 57901>>,
        <<15709, 63858>>, <<7676, 14476>>, <<22156, 17302>>, <<30561, 25444>> >>) @@
    (16 :> <<
        <<23692, 49579>>, <<30750, 63599>>, <<31488, 51188>>, <<18673, 26069>>,
        <<27325, 26714>>, <<14853, 25301>>, <<29278, 53405>>, <<383, 40678>>,
        <<26838, 1492>>, <<55976, 45734>>, <<43103, 26806>>, <<46596, 12550>>,
        <<16964, 22710>>, <<15588, 20007>>, <<41615, 6104>>, <<14577, 11666>>,
        <<663, 50661>>, <<19437, 52739>>, <<19794, 48225>>, <<53406, 1170>>,
        <<21958, 46635>>, <<43693, 54968>>, <<9302, 56950>>, <<62369, 24689>> >>) @@
    (17 :> <<
        <<34208, 48321>>, <<27142, 59819>>, <<52867, 18784>>, <<19885, 10630>>,
        <<62946, 64599>>, <<23961, 32791>>, <<18980, 58266>>, <<11448, 24383>>,
        <<50207, 40445>>, <<46212, 14517>>, <<46151, 49358>>, <<35401, 38639>>,
        <<43344, 26221>>, <<18237, 8491>>, <<7219, 37988>>, <<60128, 53953>>,
        <<1765, 21542>>, <<16312, 7463>>, <<25177, 2450>>, <<53424, 2317>>,
        <<48915, 49521>>, <<27496, 46222>>, <<16540, 14578>>, <<56341, 40554>> >>) @@
    (12345 :> <<
        <<27303, 39303>>, <<48017, 17210>>, <<666, 29253>>, <<53750, 63596>>,
        <<54080, 48077>>, <<52615, 30951>>, <<19571, 43330>>, <<56042, 22714>>,
        <<24144, 14951>>, <<61065, 28944>>, <<12691, 51796>>, <<17710, 50186>>,
        <<37093, 59717>>, <<28588, 43600>>, <<10596, 24459>>, <<24449, 7353>>,
        <<8143, 62548>>, <<57289, 58289>>, <<28372, 59723>>, <<17110, 52060>>,
        <<36836, 24612>>, <<41105, 9486>>, <<11425, 51081>>, <<40092, 59916>> >>)


\* a 32-bit output, as its upper and lower 16 bits
Words == (0 .. 65535) \X (0 .. 65535)

\* the number of outputs of a generator that are followed
StreamLen == Len(MtWords[0])

\* the outputs a generator can begin with
Streams == [1 .. StreamLen -> Words]

\* the stream that begins with the outputs ws and goes on with zeros
StreamFrom(ws) == [i \in 1 .. StreamLen |-> IF i <= Len(ws) THEN ws[i] ELSE <<0, 0>>]

\* RNG(seed) and RNG.reseed(seed): the seed is kept as given, and the stream of
\* an integer seed is that of its absolute value
RngSeed(seed) ==
    [cls |-> "RNG", seed |-> Some(seed), stream |-> MtWords[Abs(seed)], pos |-> 0]

\* random.Random(seed) itself, handed over where a generator is expected; it
\* keeps no seed attribute
PyRandom(seed) ==
    [cls |-> "Random", seed |-> None, stream |-> MtWords[Abs(seed)], pos |-> 0]

\* the methods hasattr finds on an RNG and on a random.Random
RngMethods(s) ==
    IF s.cls = "RNG" THEN {"reseed", "roll", "chance", "randint", "choice_index", "shuffle"}
    ELSE {"seed", "random", "randint", "randrange", "choice", "shuffle", "getrandbits"}

\* RNG(seed=None): random.Random(None) is seeded from the operating system,
\* and its outputs are any sequence of 32-bit values
RngSeedNone == [cls : {"RNG"}, seed : {None}, stream : Streams, pos : {0}]

RngReseed(s, seed) == RngSeed(seed)

\* the next 32-bit output
RngWord(s) == [val |-> s.stream[s.pos + 1], st |-> [s EXCEPT !.pos = @ + 1]]

\* a float of random(): (a * 2^26 + b) / 2^53 with a of 27 bits and b of 26 bits
Float53(a, b) == FCanon(0, NatAdd(NatShl(NatOfInt(a), 26), NatOfInt(b)), -Precision)

\* RNG.roll: random() takes the upper 27 bits of one output and the upper 26
\* bits of the next
RngRoll(s) ==
    LET w1 == RngWord(s)
        w2 == RngWord(w1.st)
    IN  [val |-> Float53(w1.val[1] * 2048 + w1.val[2] \div 32,
                         w2.val[1] * 1024 + w2.val[2] \div 64),
         st |-> w2.st]

\* RNG.chance
RngChance(s, p) ==
    IF FLe(p, FInt(0)) THEN [val |-> FALSE, st |-> s]
    ELSE IF FLe(FInt(1), p) THEN [val |-> TRUE, st |-> s]
    ELSE [val |-> FLt(RngRoll(s).val, p), st |-> RngRoll(s).st]

\* getrandbits(k) for 1 <= k <= 31: the upper k bits of one output
RngGetRandBits(s, k) ==
    LET w == RngWord(s)
    IN  [val |-> IF k <= 16 THEN w.val[1] \div TwoTo(16 - k)
                 ELSE w.val[1] * TwoTo(k - 16) + w.val[2] \div TwoTo(32 - k),
         st |-> w.st]


\* Random._randbelow: values of n.bit_length() bits are drawn until one is below n
RECURSIVE RngRandBelow(_, _)
RngRandBelow(s, n) ==
    LET r == RngGetRandBits(s, BitLength(n))
    IN  IF r.val >= n THEN RngRandBelow(r.st, n) ELSE r

\* RNG.randint(a, b): a + _randbelow(b - a + 1), ValueError on an empty range
RngRandint(s, a, b) ==
    IF b < a THEN [raised |-> "ValueError", st |-> s]
    ELSE [val |-> a + RngRandBelow(s, b - a + 1).val, st |-> RngRandBelow(s, b - a + 1).st]

\* RNG.choice_index(n): an index in 0 .. n-1
RngChoiceIndex(s, n) ==
    IF n <= 0 THEN [raised |-> "ValueError", st |-> s]
    ELSE RngRandBelow(s, n)

Swap(items, i, j) == [items EXCEPT ![i] = items[j], ![j] = items[i]]

\* RNG.shuffle: for i from the last index down to 1, items[i] changes place with
\* items[_randbelow(i + 1)] (indices from 0); here i is the index from 1
RECURSIVE RngShuffle(_, _, _)
RngShuffle(s, items, i) ==
    IF i <= 1 THEN [val |-> items, st |-> s]
    ELSE LET j == RngRandBelow(s, i)
         IN  RngShuffle(j.st, Swap(items, i, j.val + 1), i - 1)

----------------------------------------------------------------------------
(* formulas/multihit.py *)

ExtraNoFloor(x, r) == IF FLt(r, x) THEN 1 ELSE 0

\* a plausible slip: "<=" for "<" in the comparison with the fractional part
ExtraFromRollIncl(x, r) ==
    LET n == FFloor(x)
        f == FSub(x, FInt(n))
    IN  IF FLe(r, f) THEN n + 1 ELSE n

ExtraFromRoll(x, r) ==
    LET n == FFloor(x)
        f == FSub(x, FInt(n))
    IN  IF FLt(r, f) THEN n + 1 ELSE n

\* a plausible slip: no roll when the fractional part is 0
roll_extra_hits_whole_unrolled(total_mhr, s) ==
    LET x == FDiv(total_mhr, FInt(100))
    IN  IF FLe(x, FInt(0)) THEN [extra |-> 0, st |-> s]
        ELSE IF FEq(FSub(x, FInt(FFloor(x))), FInt(0)) THEN [extra |-> FFloor(x), st |-> s]
        ELSE [extra |-> ExtraFromRoll(x, RngRoll(s).val), st |-> RngRoll(s).st]

\* [extra, st]: the extra-hit count and the random source after the call
roll_extra_hits(total_mhr, s) ==
    LET x == FDiv(total_mhr, FInt(100))
    IN  IF FLe(x, FInt(0)) THEN [extra |-> 0, st |-> s]
        ELSE [extra |-> ExtraFromRoll(x, RngRoll(s).val), st |-> RngRoll(s).st]

\* the extra-hit count roll_extra_hits returns when its draw is r
ExtraOfDraw(total_mhr, r) ==
    LET x == FDiv(total_mhr, FInt(100))
    IN  IF FLe(x, FInt(0)) THEN 0 ELSE ExtraFromRoll(x, r)

total_hits(base_hitcount, total_mhr, s) ==
    Only({ [total |-> base_hitcount + e.extra, extra |-> e.extra, st |-> e.st] :
           e \in {roll_extra_hits(total_mhr, s)} })

----------------------------------------------------------------------------
(* data/weapons.py and data/offhands.py: what a build brings to the unit *)

\* a modifier line: Mod of the catalogs, StatMod of the gear, or a tuple
Mod(stat, tag, value) == [stat |-> stat, tag |-> tag, value |-> value]

\* WeaponDef / OffhandDef: the AP adjustments, the default lines and the lines
\* of the passives 1..3 (procs are no modifier lines)
EquipDef(ap_base_delta, ap_less_pct, ap_more_pct, default_mods, passives) ==
    [ap_base_delta |-> ap_base_delta, ap_less_pct |-> ap_less_pct,
     ap_more_pct |-> ap_more_pct, default_mods |-> default_mods, passives |-> passives]

WEAPONS ==
    [key \in {"Sword", "Axe"} |->
        IF key = "Sword"
        THEN EquipDef(-20, 0, 0, << Mod("skill_points", "special", 30) >>,
                << << >>,
                   << Mod("str", "inc", 10), Mod("dex", "inc", 10),
                      Mod("int", "inc", 10), Mod("vit", "inc", 10) >>,
                   << >> >>)
        ELSE EquipDef(0, 30, 0, << >>,
                << << Mod("dmg_more_vs_non_melee_pct", "special", 20) >>,
                   << Mod("fd_ramp_when_hp_low_pct", "special", 20) >>,
                   << Mod("fd_more_per_member_disadvantage_pct", "special", 20) >> >>)]

OFFHANDS ==
    [key \in {"Shield"} |->
        EquipDef(0, 20, 0, << Mod("block_chance", "base", 20) >>,
            << << Mod("allies_behind_skill_damage_less_pct", "special", 20) >>,
               << >>,
               << Mod("guard_effectiveness_pct", "special", 20) >> >>)]

\* build_weapon_package / build_offhand_package: the package of the definition
\* d with the passive chosen; a choice that is no key of the passives raises
BuildPackage(d, passive_choice) ==
    IF passive_choice # None /\ passive_choice[1] \notin DOMAIN d.passives
    THEN [err |-> "KeyError", ap_base_delta |-> 0, ap_less_pct |-> 0, ap_more_pct |-> 0,
          mods |-> << >>]
    ELSE [err |-> "", ap_base_delta |-> d.ap_base_delta, ap_less_pct |-> d.ap_less_pct,
          ap_more_pct |-> d.ap_more_pct,
          mods |-> d.default_mods
                    \o (IF passive_choice = None THEN << >> ELSE d.passives[passive_choice[1]])]

build_weapon_package(weapon_key, passive_choice) ==
    BuildPackage(WEAPONS[weapon_key], passive_choice)

\* resolve_mods(mods, k=k): a line with a scale is multiplied by k_pct * k; the
\* lines of the offhands above carry no scale and are kept
resolve_mods(mods, k) == mods

build_offhand_package(offhand_key, passive_choice, k) ==
    Only({ [p EXCEPT !.mods = resolve_mods(@, k)] :
           p \in {BuildPackage(OFFHANDS[offhand_key], passive_choice)} })

\* what Unit._collect_mods takes from a package: w.get("mods", [])
PackageLines(p) == p.mods

----------------------------------------------------------------------------
(* model/unit.py *)

\* formulas/attribute_derivation.py
derive_from_attributes(base, k) ==
    [ attack_base |-> FMul(FInt(1), base.str_),
      mhr_base    |-> FMul(FLit(5, 100), base.dex),
      mp_base     |-> FMul(FInt(100), base.int_),
      mr_base     |-> FMul(FInt(1), base.int_),
      hp_base     |-> FMul(FInt(50), base.vit),
      skill_power |-> FMul(FMul(base.int_, FInt(k)), FLit(5125, 1000000000)) ]

\* "d = derive_from_attributes(...)" of recompute_stats
Derived(u) == derive_from_attributes(u.base, u.build.k)

\* UnitBuild: gear is None or Some(the lines gear.all_mods() returns)
UnitBuild(main_weapon_key, main_weapon_passive_choice, offhand_key, offhand_passive_choice, gear, k) ==
    [main_weapon_key |-> main_weapon_key,
     main_weapon_passive_choice |-> main_weapon_passive_choice,
     offhand_key |-> offhand_key, offhand_passive_choice |-> offhand_passive_choice,
     gear |-> gear, k |-> k]

\* the keyword parameters of build_weapon_package and of build_offhand_package
WeaponPackageParams == {"weapon_key", "passive_choice"}
OffhandPackageParams == {"offhand_key", "passive_choice", "k"}

\* the keywords Unit._collect_mods passes in its two calls
WeaponCallKeywords == {"weapon_key", "passive_choice", "k"}
OffhandCallKeywords == {"offhand_key", "passive_choice", "k"}

NoPackage == [err |-> "", ap_base_delta |-> 0, ap_less_pct |-> 0, ap_more_pct |-> 0,
              mods |-> << >>]

\* Unit._collect_mods: the lines of the gear, then those of the weapon package,
\* then those of the offhand package when the build names an offhand; a call
\* passing a keyword the function does not take raises TypeError
_collect_mods(u) ==
    LET build == u.build
        gear_lines == IF build.gear = None THEN << >> ELSE build.gear[1]
    IN  IF ~(WeaponCallKeywords \subseteq WeaponPackageParams)
        THEN [err |-> "TypeError", mods |-> << >>]
        ELSE LET w == build_weapon_package(build.main_weapon_key,
                                           build.main_weapon_passive_choice)
                 o == IF build.offhand_key = None THEN NoPackage
                      ELSE IF ~(OffhandCallKeywords \subseteq OffhandPackageParams)
                      THEN [NoPackage EXCEPT !.err = "TypeError"]
                      ELSE build_offhand_package(build.offhand_key[1],
                                                 build.offhand_passive_choice, build.k)
             IN  IF w.err # "" THEN [err |-> w.err, mods |-> << >>]
                 ELSE IF o.err # "" THEN [err |-> o.err, mods |-> << >>]
                 ELSE [err |-> "", mods |-> gear_lines \o PackageLines(w) \o PackageLines(o)]

\* Unit.is_alive
is_alive(u) == FLt(FInt(0), u.hp)

\* the base value of each stat evaluate_stat is called for
StatBases(u) ==
    Only({ [ hp |-> d.hp_base, mp |-> d.mp_base, attack |-> d.attack_base,
             armour |-> FInt(0), mr |-> d.mr_base, mhr |-> d.mhr_base,
             crit_chance |-> u.base.crit_chance, crit_damage |-> u.base.crit_damage,
             accuracy |-> u.base.accuracy, evasion |-> u.base.evasion,
             skill_evasion |-> u.base.skill_evasion ] : d \in {Derived(u)} })

\* the UnitStats snapshot recompute_stats builds from the collected lines
\* (lines 145-175): evaluate_stat for each stat, from 1 up for hp and from 0 up
\* for the others
ComputeStats(u, mods) ==
    Only({ [ hp_max |-> st["hp"], mp_max |-> st["mp"], attack |-> st["attack"],
             armour |-> st["armour"], mr |-> st["mr"], mhr |-> st["mhr"],
             crit_chance |-> st["crit_chance"], crit_damage |-> st["crit_damage"],
             accuracy |-> st["accuracy"], evasion |-> st["evasion"],
             skill_evasion |-> st["skill_evasion"],
             ap_gain |-> compute_ap_gain(mods, FInt(100)) ]
           : st \in { [k \in DOMAIN base_value |->
                         evaluate_stat(k, base_value[k], mods,
                                       Some(FInt(IF k = "hp" THEN 1 ELSE 0)), None)]
                      : base_value \in { StatBases(u) } } })

\* "if self.hp <= 0: self.hp = hp_max" and the same for mp
InitResource(current, maximum) == IF FLe(current, FInt(0)) THEN maximum ELSE current

\* Unit.recompute_stats: [err, unit, st], the unit afterwards and the snapshot
\* returned; when _collect_mods raises, the exception leaves the method before
\* anything is stored
recompute_stats(u) ==
    Only({ IF c.err # "" THEN [err |-> c.err, unit |-> u, st |-> None]
           ELSE Only({ [ err |-> "",
                         unit |-> [u EXCEPT !.stats = Some(st),
                                            !.hp = InitResource(u.hp, st.hp_max),
                                            !.mp = InitResource(u.mp, st.mp_max)],
                         st |-> Some(st) ] : st \in {ComputeStats(u, c.mods)} })
           : c \in {_collect_mods(u)} })

\* UnitBase with its defaults
UnitBase(level, str_, dex, int_, vit) ==
    [ level |-> level, str_ |-> FInt(str_), dex |-> FInt(dex), int_ |-> FInt(int_),
      vit |-> FInt(vit), crit_chance |-> FInt(5), crit_damage |-> FInt(150),
      accuracy |-> FInt(100), evasion |-> FInt(0), skill_evasion |-> FInt(0) ]

\* UnitBuild(main_weapon_key="Sword") with the defaults of the other fields
PlainBuild == UnitBuild("Sword", Some(0), None, Some(0), None, 4000)

\* a Unit as constructed: no snapshot, hp = mp = ap = 0, no statuses, no cooldowns
NewUnit(base, build) ==
    [ base |-> base, build |-> build, stats |-> None,
      hp |-> FInt(0), mp |-> FInt(0), ap |-> 0,
      statuses |-> [form |-> "list", m |-> << >>],
      skill_cooldowns |-> None ]

\* a Unit constructed with stats, hp and mp given: the snapshot is the one the
\* stat pipeline gives for the lines, and the resources are full
StatsGiven(base, build, lines) ==
    Only({ [NewUnit(base, build) EXCEPT !.stats = Some(st), !.hp = st.hp_max,
                                        !.mp = st.mp_max] :
           st \in {ComputeStats(NewUnit(base, build), lines)} })

----------------------------------------------------------------------------
(* model/board.py *)

Teams == {"A", "B"}
Slots == 1 .. 9
UnitIds == Teams \X Slots

LINES == << <<1, 4, 7>>, <<2, 5, 8>>, <<3, 6, 9>> >>

\* Board.get: None or Some(unit)
BoardGet(b, team, slot) == b[<<team, slot>>]

\* "u is not None and u.is_alive()"
AliveAt(b, team, slot) ==
    BoardGet(b, team, slot) # None /\ is_alive(BoardGet(b, team, slot)[1])

\* Board.alive_slots: ascending slot order
RECURSIVE AliveFrom(_, _, _)
AliveFrom(b, team, s) ==
    IF s > 9 THEN << >>
    ELSE (IF AliveAt(b, team, s) THEN <<s>> ELSE << >>) \o AliveFrom(b, team, s + 1)

alive_slots(b, team) == AliveFrom(b, team, 1)

\* a plausible slip: a dead front unit keeps its line blocked
ChosenFrontOnly(b, team, line) ==
    IF AliveAt(b, team, line[1]) THEN <<line[1]>> ELSE << >>

\* the inner loop of Board.exposed_frontline_slots: the first living slot of the line
ChosenInLine(b, team, line) ==
    IF AliveAt(b, team, line[1]) THEN <<line[1]>>
    ELSE IF AliveAt(b, team, line[2]) THEN <<line[2]>>
    ELSE IF AliveAt(b, team, line[3]) THEN <<line[3]>>
    ELSE << >>

\* Board.exposed_frontline_slots
BoardExposed(b, team) ==
    ChosenInLine(b, team, LINES[1]) \o ChosenInLine(b, team, LINES[2])
        \o ChosenInLine(b, team, LINES[3])

\* rules/targeting.py exposed_frontline_slots: the board has the method, so it is used
exposed_frontline_slots(b, team) == BoardExposed(b, team)

EmptyBoard == [id \in UnitIds |-> None]

----------------------------------------------------------------------------
(* rules/targeting.py *)

TargetingSpec(side, location, scope, allow_retarget) ==
    [side |-> side, location |-> location, scope |-> scope,
     allow_retarget |-> allow_retarget]

OtherTeam(team) == IF team = "A" THEN "B" ELSE "A"

_line_index(slot) == (slot - 1) % 3

FirstAliveOf(b, team, candidates) ==
    LET alive == SelectSeq(candidates, LAMBDA s : AliveAt(b, team, s))
    IN  IF alive = << >> THEN None ELSE Some(alive[1])

\* a plausible slip: the line is scanned from the back
_exposed_in_same_line_from_back(b, team, preferred_slot) ==
    LET col == _line_index(preferred_slot)
    IN  FirstAliveOf(b, team, <<7 + col, 4 + col, 1 + col>>)

_exposed_in_same_line(b, team, preferred_slot) ==
    LET col == _line_index(preferred_slot)
    IN  FirstAliveOf(b, team, <<1 + col, 4 + col, 7 + col>>)

resolve_target_teams(attacker_team, side) ==
    IF side \in {"self", "ally"} THEN <<attacker_team>>
    ELSE IF side = "enemy" THEN <<OtherTeam(attacker_team)>>
    ELSE <<attacker_team, OtherTeam(attacker_team)>>

\* a plausible slip: the frontline is taken to be the front row
primary_candidates_front_row(b, defender_team, location) ==
    IF location = "self" THEN << >>
    ELSE IF location = "frontline"
    THEN SelectSeq(alive_slots(b, defender_team), LAMBDA x : x <= 3)
    ELSE alive_slots(b, defender_team)

primary_candidates(b, defender_team, location) ==
    IF location = "self" THEN << >>
    ELSE IF location = "frontline" THEN exposed_frontline_slots(b, defender_team)
    ELSE alive_slots(b, defender_team)

InSeq(x, q) == \E i \in 1 .. Len(q) : q[i] = x

\* a plausible slip: the exposure of the slot is not looked at
validate_alive_only(b, defender_team, slot, location) ==
    IF ~AliveAt(b, defender_team, slot) THEN FALSE
    ELSE location \in {"frontline", "anywhere"}

validate_primary_target(b, defender_team, slot, location) ==
    IF ~AliveAt(b, defender_team, slot) THEN FALSE
    ELSE IF location = "frontline"
    THEN InSeq(slot, exposed_frontline_slots(b, defender_team))
    ELSE location = "anywhere"

\* the index random.Random.choice gives among n items: 1 + _randbelow(n)
SeededIndex(s, n) == [val |-> RngRandBelow(s, n).val + 1, st |-> RngRandBelow(s, n).st]

\* _rng_choice: rng.choice(items) when the generator has choice; with neither
\* choice nor roll_int the item comes from the process-wide random module: pick
\* is the index that module happens to give, and the generator passed in is not
\* advanced. Nothing in the sources or the standard library has roll_int.
_rng_choice(s, items, pick) ==
    IF "choice" \in RngMethods(s)
    THEN Only({ [val |-> items[d.val], st |-> d.st] : d \in {SeededIndex(s, Len(items))} })
    ELSE [val |-> items[pick], st |-> s]

Target(team, slot, reason, st) == [team |-> team, slot |-> slot, reason |-> reason, st |-> st]

\* the slot the self branch returns: that of the unit standing in slot 1 of the
\* attacker's team, 0 when that slot is empty
SelfSlot(b, attacker_team) == IF BoardGet(b, attacker_team, 1) # None THEN 1 ELSE 0

\* pick_primary_target: [team, slot, reason, st]; rng_ is None or Some(the
\* generator passed in), st is that generator after the call
pick_primary_target(b, attacker_team, spec, preferred_team, preferred_slot, rng_, pick) ==
    LET teams == resolve_target_teams(attacker_team, spec.side)
        target_team == IF preferred_team # None /\ InSeq(preferred_team[1], teams)
                       THEN preferred_team[1] ELSE teams[1]
        cands == primary_candidates(b, target_team, spec.location)
        st0 == rng_
        chosen == IF rng_ = None THEN [val |-> cands[1], st |-> None]
                  ELSE Only({ [val |-> c.val, st |-> Some(c.st)]
                              : c \in {_rng_choice(rng_[1], cands, pick)} })
        same_line == _exposed_in_same_line(b, target_team, preferred_slot[1])
    IN  IF spec.scope # "single" THEN Target(None, None, "scope_not_single", st0)
        ELSE IF spec.side = "self" \/ spec.location = "self"
        THEN Target(Some(attacker_team), Some(SelfSlot(b, attacker_team)), "self", st0)
        ELSE IF cands = << >> THEN Target(Some(target_team), None, "no_candidates", st0)
        ELSE IF preferred_slot # None
        THEN IF validate_primary_target(b, target_team, preferred_slot[1], spec.location)
             THEN Target(Some(target_team), preferred_slot, "preferred_ok", st0)
             ELSE IF ~spec.allow_retarget
             THEN Target(Some(target_team), None, "preferred_invalid", st0)
             ELSE IF /\ spec.location = "frontline"
                     /\ same_line # None
                     /\ validate_primary_target(b, target_team, same_line[1], spec.location)
             THEN Target(Some(target_team), same_line, "retarget_same_line_exposed", st0)
             ELSE IF rng_ # None
             THEN Target(Some(target_team), Some(chosen.val), "retarget_random", chosen.st)
             ELSE Target(Some(target_team), Some(cands[1]), "retarget_first", st0)
        ELSE IF rng_ # None
        THEN Target(Some(target_team), Some(chosen.val), "random", chosen.st)
        ELSE Target(Some(target_team), Some(cands[1]), "first", st0)

----------------------------------------------------------------------------
(* Inputs of the formula calls *)


ModUniverse ==
    { Mod("hp", "base", 20), Mod("hp", "inc", 50), Mod("hp", "ModTag.MORE", 20),
      Mod("hp", "less", 20), Mod("hp", "less", -20), Mod("hp", "special", 20),
      Mod("mp", "LESS", 20),
      Mod("ap_gain", "base", -20) }

RECURSIVE SeqsUpTo(_, _)
SeqsUpTo(S, n) ==
    IF n = 0 THEN { << >> }
    ELSE LET shorter == SeqsUpTo(S, n - 1)
         IN  shorter \cup { Append(q, x) : q \in shorter, x \in S }

ModLists == SeqsUpTo(ModUniverse, MaxMods)

StatKeys == {"hp", "ap_gain", "armour"}
BaseValues == { FInt(-5), FInt(80) }
ClampMins == { None, Some(FInt(0)) }
ClampMaxs == { None, Some(FInt(60)) }

Levels == (-2) .. (K_TABLE[Len(K_TABLE)].level_max + LevelsAbove)

MhrInputs ==
    { FInt(-150), FInt(-1), FInt(0), FInt(1), FInt(50), FLit(125, 2), FInt(99),
      FInt(100), FInt(101), FInt(250), FInt(300) }

EvaluateInputs ==
    { [op |-> "evaluate_stat", stat_key |-> k, base_value |-> b, mods |-> ms,
       clamp_min |-> lo, clamp_max |-> hi] :
      k \in StatKeys, b \in BaseValues, ms \in ModLists,
      lo \in ClampMins, hi \in ClampMaxs }

GetKInputs == { [op |-> "get_k", level |-> level] : level \in Levels }

RollInputs ==
    { [op |-> "total_hits", total_mhr |-> mhr, base_hitcount |-> b] :
      mhr \in MhrInputs, b \in 1 .. 2 }

ChanceInputs ==
    { [op |-> "chance", p |-> p] :
      p \in { FLit(-1, 2), FInt(0), FLit(1, 4), FLit(1, 2), FLit(15, 16), FInt(1), FLit(3, 2) } }

RandintInputs ==
    { [op |-> "randint", a |-> ab[1], b |-> ab[2]] :
      ab \in { <<1, 6>>, <<0, 0>>, <<3, 2>>, <<-2, 2>> } }

ChoiceIndexInputs == { [op |-> "choice_index", n |-> n] : n \in { 0, 1, 3, 5 } }

ShuffleInputs ==
    { [op |-> "shuffle", items |-> items] : items \in { << >>, <<1, 2, 3>>, <<1, 2, 3, 4>> } }

ReseedInputs == { [op |-> "reseed", seed |-> seed] : seed \in { -1, 3, MaxSeed } }

NoInput == [op |-> "none"]
Idle == [op |-> "none"]

CallEvaluate ==
    /\ inp.op = "evaluate_stat"
    /\ ret = Idle
    /\ ret' = [op |-> "evaluate_stat",
               out |-> evaluate_stat(inp.stat_key, inp.base_value, inp.mods,
                                     inp.clamp_min, inp.clamp_max)]
    /\ UNCHANGED <<inp, rng, board, team_turn, starts_team, phase, actors, winner, runs>>

CallGetK ==
    /\ inp.op = "get_k"
    /\ ret = Idle
    /\ ret' = [op |-> "get_k", out |-> get_k(inp.level)]
    /\ UNCHANGED <<inp, rng, board, team_turn, starts_team, phase, actors, winner, runs>>

\* total_hits, which calls roll_extra_hits once
CallTotalHits ==
    /\ inp.op = "total_hits"
    /\ ret = Idle
    /\ LET res == total_hits(inp.base_hitcount, inp.total_mhr, rng)
       IN  /\ ret' = [op |-> "total_hits", rng_before |-> rng,
                      total |-> res.total, extra |-> res.extra]
           /\ rng' = res.st
    /\ UNCHANGED <<inp, board, team_turn, starts_team, phase, actors, winner, runs>>

\* RNG.chance(p)
CallChance ==
    /\ inp.op = "chance"
    /\ ret = Idle
    /\ \E res \in {RngChance(rng, inp.p)} :
          /\ ret' = [op |-> "chance", rng_before |-> rng, out |-> res.val]
          /\ rng' = res.st
    /\ UNCHANGED <<inp, board, team_turn, starts_team, phase, actors, winner, runs>>

\* RNG.randint(a, b)
CallRandint ==
    /\ inp.op = "randint"
    /\ ret = Idle
    /\ \E res \in {RngRandint(rng, inp.a, inp.b)} :
          /\ ret' = [op |-> "randint", rng_before |-> rng,
                     out |-> IF "raised" \in DOMAIN res THEN [raised |-> res.raised]
                             ELSE [val |-> res.val]]
          /\ rng' = res.st
    /\ UNCHANGED <<inp, board, team_turn, starts_team, phase, actors, winner, runs>>

\* RNG.choice_index(n)
CallChoiceIndex ==
    /\ inp.op = "choice_index"
    /\ ret = Idle
    /\ \E res \in {RngChoiceIndex(rng, inp.n)} :
          /\ ret' = [op |-> "choice_index", rng_before |-> rng,
                     out |-> IF "raised" \in DOMAIN res THEN [raised |-> res.raised]
                             ELSE [val |-> res.val]]
          /\ rng' = res.st
    /\ UNCHANGED <<inp, board, team_turn, starts_team, phase, actors, winner, runs>>

\* RNG.shuffle(items): the list is reordered in place
CallShuffle ==
    /\ inp.op = "shuffle"
    /\ ret = Idle
    /\ \E res \in {RngShuffle(rng, inp.items, Len(inp.items))} :
          /\ ret' = [op |-> "shuffle", rng_before |-> rng, items |-> res.val]
          /\ rng' = res.st
    /\ UNCHANGED <<inp, board, team_turn, starts_team, phase, actors, winner, runs>>

\* RNG.reseed(seed)
CallReseed ==
    /\ inp.op = "reseed"
    /\ ret = Idle
    /\ ret' = [op |-> "reseed", rng_before |-> rng]
    /\ rng' = RngReseed(rng, inp.seed)
    /\ UNCHANGED <<inp, board, team_turn, starts_team, phase, actors, winner, runs>>

Seeds == 0 .. MaxSeed

\* the streams followed for a generator that the operating system seeds: those
\* of the table; for each sixteenth j/16 one whose first roll is j/16, the
\* upper four bits of its first output being j; and one whose first roll is
\* the largest there is, 1 - 2^-53
DrawnStreams ==
    { MtWords[w] : w \in DOMAIN MtWords }
        \cup { StreamFrom(<< <<j * 4096, 0>> >>) : j \in 0 .. 15 }
        \cup { StreamFrom(<< <<65535, 65535>>, <<65535, 65535>> >>) }

\* the generators the formula calls start from: RNG(seed) for the seeds, and
\* RNG() with each of the streams followed
FormulaGenerators ==
    { RngSeed(seed) : seed \in Seeds }
        \cup { g \in { [cls |-> "RNG", seed |-> None, stream |-> w, pos |-> 0] :
                          w \in DrawnStreams } : g \in RngSeedNone }

InitFormulas ==
    /\ \/ inp \in EvaluateInputs \cup GetKInputs /\ rng = RngSeed(0)
       \/ /\ inp \in RollInputs \cup ChanceInputs \cup RandintInputs
                    \cup ChoiceIndexInputs \cup ShuffleInputs
          /\ rng \in FormulaGenerators
       \/ inp \in ReseedInputs /\ rng \in { RngRoll(g).st : g \in FormulaGenerators }
    /\ ret = Idle
    /\ board = << >>
    /\ team_turn = 0
    /\ starts_team = "A"
    /\ phase = "idle"
    /\ actors = << >>
    /\ winner = ""
    /\ runs = << >>

NextFormulas ==
    \/ CallEvaluate \/ CallGetK \/ CallTotalHits \/ CallChance
    \/ CallRandint \/ CallChoiceIndex \/ CallShuffle \/ CallReseed

SpecFormulas == InitFormulas /\ [][NextFormulas]_vars

----------------------------------------------------------------------------
(* Board exposure on every aliveness pattern *)

DefaultBase == UnitBase(100, 10, 10, 1, 1)

\* a unit of the default build holding the given hit points
UnitWithHp(h) == [NewUnit(DefaultBase, PlainBuild) EXCEPT !.hp = FInt(h)]

SlotStates == { None, Some(UnitWithHp(0)), Some(UnitWithHp(1)) }

LoneUnitTeam == [s \in Slots |-> IF s = 1 THEN Some(UnitWithHp(1)) ELSE None]

BoardOf(teamA, teamB) ==
    [id \in UnitIds |-> IF id[1] = "A" THEN teamA[id[2]] ELSE teamB[id[2]]]

CallExposed ==
    /\ inp.op = "exposed_frontline_slots"
    /\ ret = Idle
    /\ ret' = [op |-> "exposed_frontline_slots",
               out |-> exposed_frontline_slots(board, inp.team)]
    /\ UNCHANGED <<inp, rng, board, team_turn, starts_team, phase, actors, winner, runs>>

CallAliveSlots ==
    /\ inp.op = "alive_slots"
    /\ ret = Idle
    /\ ret' = [op |-> "alive_slots", out |-> alive_slots(board, inp.team)]
    /\ UNCHANGED <<inp, rng, board, team_turn, starts_team, phase, actors, winner, runs>>

InitBoard ==
    /\ inp \in { [op |-> o, team |-> "B"] : o \in {"exposed_frontline_slots", "alive_slots"} }
    /\ ret = Idle
    /\ rng = RngSeed(0)
    /\ board \in { BoardOf(LoneUnitTeam, tb) : tb \in [Slots -> SlotStates] }
    /\ team_turn = 0
    /\ starts_team = "A"
    /\ phase = "idle"
    /\ actors = << >>
    /\ winner = ""
    /\ runs = << >>

NextBoard == CallExposed \/ CallAliveSlots

SpecBoard == InitBoard /\ [][NextBoard]_vars

----------------------------------------------------------------------------
(* One unit: recompute_stats between the changes a battle makes to it *)

\* largest number of hit or mana points one change takes from the unit
MaxLoss == 2

UnitBases == { UnitBase(100, 10, 10, 0, 1), UnitBase(100, 5, 30, 2, 1) }

\* the lines a gear set brings (GearSet.all_mods)
GearLines ==
    { << Mod("hp", "base", 20), Mod("hp", "inc", 50), Mod("mp", "less", 20) >>,
      << Mod("ap_gain", "base", -20), Mod("ap_gain", "less", 20), Mod("attack", "inc", 5) >> }

Builds ==
    { PlainBuild,
      UnitBuild("Sword", None, Some("Shield"), None, None, 4000),
      UnitBuild("Axe", Some(1), None, Some(0), None, 120) }
      \cup { UnitBuild("Sword", Some(2), None, Some(0), Some(g), 4000) : g \in GearLines }

TheUnit == board[<<"A", 1>>][1]

BoardWith(u) == [id \in UnitIds |-> IF id = <<"A", 1>> THEN Some(u) ELSE None]

\* unit.recompute_stats()
Recompute ==
    /\ \E r \in {recompute_stats(TheUnit)} :
          /\ board' = BoardWith(r.unit)
          /\ ret' = [op |-> "recompute_stats", before |-> TheUnit, err |-> r.err,
                     out |-> r.st]
    /\ UNCHANGED <<inp, rng, team_turn, starts_team, phase, actors, winner, runs>>

\* the battle takes hit points from a living unit (in steps of 25)
LoseHp ==
    /\ is_alive(TheUnit)
    /\ \E i \in 1 .. MaxLoss :
          board' = BoardWith([TheUnit EXCEPT !.hp = FSub(@, FInt(25 * i))])
    /\ ret' = [op |-> "lose_hp"]
    /\ UNCHANGED <<inp, rng, team_turn, starts_team, phase, actors, winner, runs>>

\* the unit's build is changed (another gear, weapon or offhand)
Reequip ==
    /\ \E build \in Builds :
          /\ build # TheUnit.build
          /\ board' = BoardWith([TheUnit EXCEPT !.build = build])
    /\ ret' = [op |-> "reequip"]
    /\ UNCHANGED <<inp, rng, team_turn, starts_team, phase, actors, winner, runs>>

\* the unit as its caller constructs it: Unit(uid, team, slot, base, build), or
\* with stats, hp and mp passed to the constructor
InitUnit ==
    /\ inp = NoInput
    /\ ret = Idle
    /\ rng = RngSeed(0)
    /\ \E b \in UnitBases, build \in Builds :
          \/ board = BoardWith(NewUnit(b, build))
          \/ \E g \in GearLines : board = BoardWith(StatsGiven(b, build, g))
    /\ team_turn = 0
    /\ starts_team = "A"
    /\ phase = "idle"
    /\ actors = << >>
    /\ winner = ""
    /\ runs = << >>

NextUnit == Recompute \/ LoseHp \/ Reequip

SpecUnit == InitUnit /\ [][NextUnit]_vars

----------------------------------------------------------------------------
(* data/status_effects.py and rules/status_pipeline.py *)

StatusDef(is_positive, default_duration) ==
    [is_positive |-> is_positive, stackable |-> FALSE, max_stacks |-> 1,
     refresh_on_reapply |-> TRUE, default_duration |-> default_duration]

PositiveKeys == {"immunity", "deliberate"}

NegativeKeys ==
    {"silence", "disarm", "break", "panic", "weaken", "slow", "bleeding", "shred",
     "sunder", "immobilized", "stun", "dull", "brand", "chill"}

STATUS ==
    [k \in PositiveKeys \cup NegativeKeys |->
        StatusDef(k \in PositiveKeys, IF k = "immunity" THEN 4 ELSE 1)]

\* a params dict, as a set of <<name, value>> pairs
DictUpdate(d, e) == { p \in d : \A q \in e : q[1] # p[1] } \cup e

StatusInstance(remaining, stacks, params, source_uid) ==
    [remaining |-> remaining, stacks |-> stacks, params |-> params,
     source_uid |-> source_uid]

KeysOf(list) == { list[i] : i \in 1 .. Len(list) }

\* _ensure_status_map: the dict of instances that replaces unit.statuses; a list
\* holds keys of STATUS here (get_status raises KeyError for another key, which
\* build_start_turn_frame passes on)
EnsureStatusMap(st) ==
    IF st.form = "list"
    THEN [form |-> "insts",
          m |-> [k \in KeysOf(st.m) |->
                    StatusInstance(STATUS[k].default_duration, 1, {}, None)]]
    ELSE IF st.form = "ints"
    THEN [form |-> "insts",
          m |-> [k \in DOMAIN st.m |-> StatusInstance(st.m[k], 1, {}, None)]]
    ELSE st

has_status(st, key) ==
    LET sm == EnsureStatusMap(st).m
    IN  key \in DOMAIN sm /\ sm[key].remaining > 0

cleanup_expired_statuses(st) ==
    LET sm == EnsureStatusMap(st).m
    IN  [form |-> "insts",
         m |-> [k \in { x \in DOMAIN sm : sm[x].remaining > 0 } |-> sm[k]]]

Max(a, b) == IF a >= b THEN a ELSE b
Min(a, b) == IF a <= b THEN a ELSE b

\* a plausible slip: a reapply adds the new duration to what remains
ReappliedAdditive(existing, sd, dur, stacks_add, params, source_uid) ==
    [remaining |-> IF sd.refresh_on_reapply THEN existing.remaining + dur
                   ELSE existing.remaining,
     stacks |-> IF sd.stackable
                THEN Max(1, Min(sd.max_stacks, existing.stacks + stacks_add))
                ELSE existing.stacks,
     params |-> IF params # {} THEN DictUpdate(existing.params, params)
                ELSE existing.params,
     source_uid |-> IF source_uid # None THEN source_uid ELSE existing.source_uid]

\* the changes apply_status makes to the instance already stored under the key
Reapplied(existing, sd, dur, stacks_add, params, source_uid) ==
    [remaining |-> IF sd.refresh_on_reapply THEN Max(existing.remaining, dur)
                   ELSE existing.remaining,
     stacks |-> IF sd.stackable
                THEN Max(1, Min(sd.max_stacks, existing.stacks + stacks_add))
                ELSE existing.stacks,
     params |-> IF params # {} THEN DictUpdate(existing.params, params)
                ELSE existing.params,
     source_uid |-> IF source_uid # None THEN source_uid ELSE existing.source_uid]

\* the instance apply_status creates for a key the map lacks
Created(sd, dur, stacks_add, params, source_uid) ==
    StatusInstance(dur,
                   IF ~sd.stackable THEN 1 ELSE Max(1, Min(sd.max_stacks, stacks_add)),
                   params, source_uid)

\* apply_status.  sm is the dict the first _ensure_status_map returned; the
\* has_status call then replaces unit.statuses by another dict that holds the
\* same instances.  A new key is stored in sm alone, a change to an existing
\* instance is seen through both dicts.  Returns what the call returns (err for
\* the KeyError of an unknown key) and the unit.statuses it leaves.
apply_status(st, key, duration, stacks_add, params, source_uid) ==
    LET sm == EnsureStatusMap(st)
        sd == STATUS[key]
        unit_map == EnsureStatusMap(sm)
        dur == Max(0, IF duration # None THEN duration[1] ELSE sd.default_duration)
    IN  IF key \notin DOMAIN STATUS
        THEN [err |-> TRUE, out |-> FALSE, statuses |-> sm]
        ELSE IF has_status(sm, "immunity") /\ ~sd.is_positive
        THEN [err |-> FALSE, out |-> FALSE, statuses |-> unit_map]
        ELSE IF key \notin DOMAIN sm.m
        THEN [err |-> FALSE, out |-> TRUE, statuses |-> unit_map]
        ELSE [err |-> FALSE, out |-> TRUE,
              statuses |-> [unit_map EXCEPT !.m[key] =
                  Reapplied(@, sd, dur, stacks_add, params, source_uid)]]

----------------------------------------------------------------------------
(* rules/status_pipeline.py: the start-turn frame *)

DictGet(d, name, default) ==
    IF \E p \in d : p[1] = name THEN (CHOOSE p \in d : p[1] = name)[2] ELSE default

StatusFrame ==
    [can_act |-> TRUE, can_use_active_skills |-> TRUE, can_basic_attack |-> TRUE,
     ignore_passives |-> FALSE, block_ap_gain |-> FALSE,
     attack_damage_mult |-> FInt(1), skill_damage_mult |-> FInt(1),
     damage_taken_mult |-> FInt(1),
     ap_gain_base_delta |-> 0, mhr_base_delta |-> 0, accuracy_inc_pct_delta |-> 0,
     armour_base_delta |-> 0, mr_base_delta |-> 0,
     events |-> << >>]

StatusEvent(type, payload) == [type |-> type, payload |-> payload]

_pct_less_to_mult(pct_less) ==
    FMax(FInt(0), FSub(FInt(1), FDiv(FMax(FInt(0), FInt(pct_less)), FInt(100))))

_pct_more_to_mult(pct_more) == FMax(FInt(0), FAdd(FInt(1), FDiv(FInt(pct_more), FInt(100))))

\* the kinds whose branch of build_start_turn_frame imports its handler from
\* rules.status_handlers when it is reached: the package is not among the
\* modules, and the import raises ModuleNotFoundError
HandlerKeys == {"stun", "bleeding"}

\* the contribution of one active status to the frame, for the kinds whose
\* branch is written out in build_start_turn_frame
FrameStep(frame, key, inst) ==
    CASE key = "immobilized" -> [frame EXCEPT !.can_act = FALSE]
      [] key = "silence" -> [frame EXCEPT !.can_use_active_skills = FALSE]
      [] key = "disarm" -> [frame EXCEPT !.can_basic_attack = FALSE]
      [] key = "break" -> [frame EXCEPT !.ignore_passives = TRUE]
      [] key = "panic" ->
            [frame EXCEPT !.skill_damage_mult =
                FMul(@, _pct_less_to_mult(DictGet(inst.params, "skill_damage_less_pct", 0)))]
      [] key = "weaken" ->
            [frame EXCEPT !.attack_damage_mult =
                FMul(@, _pct_less_to_mult(DictGet(inst.params, "attack_damage_less_pct", 0)))]
      [] key = "brand" ->
            [frame EXCEPT !.damage_taken_mult =
                FMul(@, _pct_more_to_mult(DictGet(inst.params, "damage_taken_more_pct", 0)))]
      [] key = "dull" ->
            [frame EXCEPT !.accuracy_inc_pct_delta =
                @ + DictGet(inst.params, "accuracy_inc_pct", 0)]
      [] key = "slow" ->
            [frame EXCEPT !.ap_gain_base_delta = @ + DictGet(inst.params, "ap_base_delta", 0)]
      [] key = "chill" ->
            [frame EXCEPT !.ap_gain_base_delta = @ + DictGet(inst.params, "ap_base_delta", -5),
                          !.mhr_base_delta = @ + DictGet(inst.params, "mhr_base_delta", -10)]
      [] key = "shred" ->
            [frame EXCEPT !.armour_base_delta = @ + DictGet(inst.params, "armour_base_delta", 0)]
      [] key = "sunder" ->
            [frame EXCEPT !.mr_base_delta = @ + DictGet(inst.params, "mr_base_delta", 0)]
      [] OTHER -> frame

\* a plausible slip: a unit that cannot act keeps its other permissions
FrameEndNoLock(frame) ==
    IF ~frame.can_act
    THEN [frame EXCEPT !.events = Append(@, StatusEvent("log", "cannot act due to status"))]
    ELSE frame

\* the end of build_start_turn_frame: a unit that cannot act can neither attack
\* nor use a skill, and a log event says so
FrameEnd(frame) ==
    IF ~frame.can_act
    THEN [frame EXCEPT !.can_basic_attack = FALSE, !.can_use_active_skills = FALSE,
                       !.events = Append(@, StatusEvent("log", "cannot act due to status"))]
    ELSE frame

PRIORITY ==
    << "stun", "immobilized", "silence", "disarm", "break", "panic", "weaken", "brand",
       "dull", "slow", "chill", "shred", "sunder", "bleeding" >>

\* the loop of build_start_turn_frame over the active statuses of PRIORITY, in
\* that order; the active statuses that PRIORITY does not name come after them
\* and leave the frame as it is
RECURSIVE FrameLoop(_, _, _)
FrameLoop(frame, sm, i) ==
    IF i > Len(PRIORITY) THEN frame
    ELSE LET k == PRIORITY[i]
         IN  FrameLoop(IF k \in DOMAIN sm /\ sm[k].remaining > 0
                       THEN FrameStep(frame, k, sm[k]) ELSE frame,
                       sm, i + 1)

\* the keys for which get_status raises KeyError: those STATUS does not hold
UnknownKeys(keys) == { k \in keys : k \notin DOMAIN STATUS }

\* _iter_statuses_in_order: get_status(k) is called for every active status
\* before the loop begins
_iter_statuses_in_order(sm) ==
    IF UnknownKeys({ k \in DOMAIN sm : sm[k].remaining > 0 }) # {} THEN "KeyError" ELSE ""

\* the loop of build_start_turn_frame reaches the branch of a kind whose
\* handler it imports: the unit carries an active stun or bleeding
ImportsHandler(sm) == \E k \in HandlerKeys : k \in DOMAIN sm /\ sm[k].remaining > 0

\* build_start_turn_frame: [err, frame, unit], the frame and the unit as the
\* call leaves it. A list of keys is turned into a dict through get_status, a
\* KeyError there leaving the unit as it was; after the cleanup a KeyError of
\* _iter_statuses_in_order leaves the unit with the cleaned dict and no frame,
\* and so does the ModuleNotFoundError of the loop for an active stun or
\* bleeding.
build_start_turn_frame(u) ==
    IF u.statuses.form = "list" /\ UnknownKeys(KeysOf(u.statuses.m)) # {}
    THEN [err |-> "KeyError", frame |-> None, unit |-> u]
    ELSE Only({
            IF _iter_statuses_in_order(st.m) # ""
            THEN [err |-> _iter_statuses_in_order(st.m), frame |-> None,
                  unit |-> [u EXCEPT !.statuses = st]]
            ELSE IF ImportsHandler(st.m)
            THEN [err |-> "ModuleNotFoundError", frame |-> None,
                  unit |-> [u EXCEPT !.statuses = st]]
            ELSE [err |-> "", frame |-> FrameEnd(FrameLoop(StatusFrame, st.m, 1)),
                  unit |-> [u EXCEPT !.statuses = st]]
            : st \in {cleanup_expired_statuses(u.statuses)} })

----------------------------------------------------------------------------
(* rules/cooldowns.py *)

\* a plausible slip: the floor at 0 is forgotten
_dec_unfloored(x, amount) == x - amount

_dec_nonneg(x, amount) == IF x > 0 THEN x - amount ELSE 0

should_tick(two_turn_counter) == two_turn_counter % 2 = 0

\* apply_two_turn_tick_to_unit: cooldowns are lowered when the unit has a
\* skill_cooldowns dict; statuses are ticked when unit.statuses is a dict, whose
\* values the code converts with int(), so a dict of StatusInstance raises
apply_two_turn_tick_to_unit(u) ==
    LET cds == IF u.skill_cooldowns = None THEN None
               ELSE Some([k \in DOMAIN u.skill_cooldowns[1] |->
                            _dec_nonneg(u.skill_cooldowns[1][k], 1)])
        u1 == [u EXCEPT !.skill_cooldowns = cds]
        sm == u.statuses.m
        ticked == [k \in DOMAIN sm |-> _dec_nonneg(sm[k], 1)]
        kept == { k \in DOMAIN sm : ~(ticked[k] = 0 /\ sm[k] > 0) }
    IN  IF u.statuses.form = "list" THEN [err |-> FALSE, unit |-> u1]
        ELSE IF u.statuses.form = "insts"
        THEN [err |-> DOMAIN sm # {}, unit |-> u1]
        ELSE [err |-> FALSE,
              unit |-> [u1 EXCEPT !.statuses.m = [k \in kept |-> ticked[k]]]]

\* the order in which apply_two_turn_tick is handed the units: team A, then team B
IdIndex(id) == IF id[1] = "A" THEN id[2] ELSE 9 + id[2]

\* apply_two_turn_tick over every unit of the board.  A unit that raises stops
\* the loop: the units before it are ticked, its own cooldowns are ticked, the
\* units after it are left alone.
apply_two_turn_tick(b, team_turn_) ==
    LET raising == { IdIndex(id) : id \in { x \in DOMAIN b :
                        b[x] # None /\ apply_two_turn_tick_to_unit(b[x][1]).err } }
        stop == IF raising = {} THEN 19
                ELSE CHOOSE i \in raising : \A j \in raising : i <= j
    IN  IF team_turn_ <= 0 \/ ~should_tick(team_turn_)
        THEN [ticked |-> FALSE, err |-> FALSE, board |-> b]
        ELSE [ticked |-> TRUE, err |-> raising # {},
              board |-> [id \in DOMAIN b |->
                            IF b[id] = None \/ IdIndex(id) > stop THEN b[id]
                            ELSE Some(apply_two_turn_tick_to_unit(b[id][1]).unit)]]

is_skill_ready(u, skill_key) ==
    LET cd == IF u.skill_cooldowns # None /\ skill_key \in DOMAIN u.skill_cooldowns[1]
              THEN u.skill_cooldowns[1][skill_key] ELSE 0
    IN  cd <= 0

----------------------------------------------------------------------------
(* rules/turn_order.py *)

team_for_team_turn(starts_team_, team_turn_) ==
    IF team_turn_ <= 0 THEN starts_team_
    ELSE IF team_turn_ % 2 = 1 THEN starts_team_
    ELSE OtherTeam(starts_team_)

\* TurnSelectionRule(): the rule with the defaults of its fields
TurnSelectionRule ==
    [early_map |-> [t \in 1 .. 4 |-> t + 1], normal_max |-> 5, normal_ap_threshold |-> 100]

\* the rules start_team_turn is handed: the default one, one whose normal
\* maximum is below the team sizes, and one with another threshold as well
SelectionRules ==
    { TurnSelectionRule,
      [TurnSelectionRule EXCEPT !.normal_max = 2],
      [TurnSelectionRule EXCEPT !.normal_max = 3, !.normal_ap_threshold = 200] }

\* a plausible slip: the rule of the early team-turns goes on after them, one
\* actor more each team-turn and no AP threshold
selection_params_early_forever(team_turn_, rule) ==
    [max_actors |-> IF team_turn_ \in DOMAIN rule.early_map
                    THEN rule.early_map[team_turn_] ELSE team_turn_ + 1,
     ignore_threshold |-> TRUE, ap_threshold |-> rule.normal_ap_threshold]

selection_params(team_turn_, rule) ==
    IF team_turn_ \in DOMAIN rule.early_map
    THEN [max_actors |-> rule.early_map[team_turn_], ignore_threshold |-> TRUE,
          ap_threshold |-> rule.normal_ap_threshold]
    ELSE [max_actors |-> rule.normal_max, ignore_threshold |-> FALSE,
          ap_threshold |-> rule.normal_ap_threshold]

\* _compute_ap_gain_with_status: the stored stats.ap_gain when there is no delta
\* and a snapshot; otherwise the lines are collected anew, an exception of
\* _collect_mods leaving an empty list, and the delta is added as a base line
_compute_ap_gain_with_status(u, ap_base_delta) ==
    IF ap_base_delta = 0 /\ u.stats # None THEN u.stats[1].ap_gain
    ELSE Only({ compute_ap_gain(
                    IF ap_base_delta # 0
                    THEN Append(mods, Mod("ap_gain", "base", ap_base_delta))
                    ELSE mods,
                    FInt(100))
                : mods \in {IF _collect_mods(u).err # "" THEN << >>
                            ELSE _collect_mods(u).mods} })

\* the slots of the list, those with the most AP first; equal AP keeps list order
SortByApDesc(b, team, slots) ==
    LET ap(i) == BoardGet(b, team, slots[i])[1].ap
        Before(i, j) == ap(i) > ap(j) \/ (ap(i) = ap(j) /\ i < j)
        Rank(i) == Cardinality({ j \in 1 .. Len(slots) : Before(j, i) }) + 1
    IN  [k \in 1 .. Len(slots) |-> slots[CHOOSE i \in 1 .. Len(slots) : Rank(i) = k]]

\* sorted(units, key = (-ap, slot)): most AP first, equal AP by ascending slot
SortByApThenSlot(b, team, slots) ==
    LET ap(i) == BoardGet(b, team, slots[i])[1].ap
        Before(i, j) == ap(i) > ap(j) \/ (ap(i) = ap(j) /\ slots[i] < slots[j])
        Rank(i) == Cardinality({ j \in 1 .. Len(slots) : Before(j, i) }) + 1
    IN  [k \in 1 .. Len(slots) |-> slots[CHOOSE i \in 1 .. Len(slots) : Rank(i) = k]]

\* the orders in which a board hands over the units of a team: the order of the
\* slots, and an order in which the units were not placed slot by slot
SlotOrder == [i \in 1 .. 9 |-> i]
BackToFront == [i \in 1 .. 9 |-> 10 - i]

\* _iter_team_units and the filter on _is_alive: the living units of the team in
\* the order the board hands them over
LivingInOrder(b, order, team) == SelectSeq(order, LAMBDA s : AliveAt(b, team, s))

Take(q, n) == IF Len(q) <= n THEN q ELSE SubSeq(q, 1, n)

\* step 2 of start_team_turn: the AP a unit gains, given its start-turn context
ApGainOfContext(c) ==
    IF c.frame.block_ap_gain THEN 0
    ELSE FRound(_compute_ap_gain_with_status(c.unit, c.frame.ap_gain_base_delta))

\* start_team_turn: [raised, board, actors, max_actors, gains]. The frames of the
\* living units of the team are built one after the other, then the AP gains
\* are added, then the actors are selected; a frame that raises ends the call
\* with the units before it, and that one, left as their frame calls left them
start_team_turn(b, order, team, team_turn_, rule) ==
    LET p == selection_params(team_turn_, rule)
        Gain(c) == ApGainOfContext(c)
        Rich(b1, sorted) ==
            IF p.ignore_threshold THEN sorted
            ELSE SelectSeq(sorted, LAMBDA s : BoardGet(b1, team, s)[1].ap >= p.ap_threshold)
        Raising(units, ctx) == { i \in 1 .. Len(units) : ctx[units[i]].err # "" }
        FirstOf(S) == CHOOSE i \in S : \A j \in S : i <= j
    IN  Only({ Only({
            IF Raising(units, ctx) # {}
            THEN [raised |-> ctx[units[FirstOf(Raising(units, ctx))]].err,
                  board |-> [id \in DOMAIN b |->
                                IF /\ id[1] = team
                                   /\ \E i \in 1 .. FirstOf(Raising(units, ctx)) :
                                         units[i] = id[2]
                                THEN Some(ctx[id[2]].unit) ELSE b[id]],
                  actors |-> << >>, max_actors |-> p.max_actors, gains |-> << >>]
            ELSE Only({ Only({
                [raised |-> "",
                 board |-> b1,
                 actors |-> Take(SelectSeq(Rich(b1, SortByApThenSlot(b1, team, units)),
                                           LAMBDA s : ctx[s].frame.can_act),
                                 p.max_actors),
                 max_actors |-> p.max_actors,
                 gains |-> [i \in 1 .. Len(units) |-> <<units[i], gain[units[i]]>>]]
                : b1 \in {[id \in DOMAIN b |->
                             IF id[1] = team /\ InSeq(id[2], units)
                             THEN Some([ctx[id[2]].unit EXCEPT !.ap = @ + gain[id[2]]])
                             ELSE b[id]]} })
                : gain \in {[s \in DOMAIN ctx |-> Gain(ctx[s])]} })
            : ctx \in {[s \in { units[i] : i \in 1 .. Len(units) } |->
                          build_start_turn_frame(BoardGet(b, team, s)[1])]} })
            : units \in {LivingInOrder(b, order, team)} })

----------------------------------------------------------------------------
(* sim/engine.py *)

\* the largest max_team_turns an engine is configured with
MaxTeamTurns == 5

\* the largest BattleState.team_turn a call of step_team_turn is made at
MaxSteps == 6

\* the largest team_turn run is entered with
MaxEntryTurn == 2

\* start_team_turn is called for a team while its units have less AP than this
MaxAp == 300

EngineConfig(max_team_turns) ==
    [max_team_turns |-> max_team_turns, action_ap_cost |-> 100, ap_threshold |-> 100,
     normal_max_actors |-> 5]

\* what hasattr finds in rules.cooldowns and rules.turn_order
HasMaybeTwoTurnTick == FALSE
HasGetTurnRule == FALSE

\* what hasattr finds on a Board of model/board.py, and on a board that offers
\* team_units(team) besides
BoardAttrs == {"team_a", "team_b", "get", "set", "alive_slots", "exposed_frontline_slots"}
ListingBoardAttrs == BoardAttrs \cup {"team_units"}

\* a battle: the BattleState with the attributes of its board and the order in
\* which the board hands over its units, and the result of the run so far
Battle(b, attrs, order, starts_team_, seed, cfg) ==
    [board |-> b, attrs |-> attrs, order |-> order, team_turn |-> 0,
     starts_team |-> starts_team_, rng |-> RngSeed(seed),
     cfg |-> cfg, phase |-> "idle", actors |-> << >>, winner |-> ""]

\* a plausible slip: the starting team acts in every team-turn
ActingTeamNoSwap(bs) == bs.starts_team

\* the team acting in the current team-turn (fallback alternation of the engine)
ActingTeam(bs) ==
    IF bs.team_turn % 2 = 1 THEN bs.starts_team ELSE OtherTeam(bs.starts_team)

\* the units of the team standing on the board, in the order the board hands
\* them over
UnitsInOrder(b, order, team) == SelectSeq(order, LAMBDA s : BoardGet(b, team, s) # None)

\* _team_units: through team_units, units or by_id, whichever the board has;
\* AttributeError when it has none of them
_team_units(bs, team) ==
    IF \E a \in {"team_units", "units", "by_id"} : a \in bs.attrs
    THEN [err |-> "", units |-> UnitsInOrder(bs.board, bs.order, team)]
    ELSE [err |-> "AttributeError", units |-> << >>]

\* _living_team_units: those of _team_units that are alive
_living_team_units(bs, team) ==
    Only({ [r EXCEPT !.units = SelectSeq(@, LAMBDA s : AliveAt(bs.board, team, s))]
           : r \in {_team_units(bs, team)} })

\* _team_defeated: [err, out]
_team_defeated(bs, team) ==
    Only({ [err |-> r.err, out |-> r.err = "" /\ Len(r.units) = 0]
           : r \in {_living_team_units(bs, team)} })

\* the two-turn tick of the step: taken only if rules.cooldowns offers
\* maybe_two_turn_tick
EngineTick(b, team_turn_) ==
    IF HasMaybeTwoTurnTick THEN apply_two_turn_tick(b, team_turn_).board ELSE b

\* gain = int(compute_ap_gain(u)): compute_ap_gain(*, mods, base_ap_gain) takes
\* its parameters by keyword only, so the call with the unit as a positional
\* argument raises TypeError for every unit
EngineApGain(u) == [err |-> "TypeError", gain |-> 0]

\* max_actors, ignore_ap_rule, ap_threshold of the step
EngineRule(team_turn_, cfg) ==
    IF HasGetTurnRule
    THEN selection_params(team_turn_, TurnSelectionRule)
    ELSE [max_actors |-> IF team_turn_ \in 1 .. 4 THEN team_turn_ + 1
                         ELSE cfg.normal_max_actors,
          ignore_threshold |-> team_turn_ \in 1 .. 4,
          ap_threshold |-> cfg.ap_threshold]

\* "=" * 42
Rule42 == "=========================================="

ApLine(team, s, before, after) == <<"AP gain", team, s, before, after, after - before>>

ActorsLine(b, team, rule, actors_) ==
    <<"Actors selected", rule.max_actors,
      IF rule.ignore_threshold THEN "IGNORE_AP_RULE" ELSE "AP>=",
      [i \in 1 .. Len(actors_) |-> <<actors_[i], BoardGet(b, team, actors_[i])[1].ap>>]>>

\* the step left by an exception: the counter and the log keep what was done
StepRaised(bs1, lines, exc) ==
    [bs |-> [bs1 EXCEPT !.phase = "raised", !.actors = << >>],
     lines |-> lines, raised |-> exc, out |-> ""]

\* BattleEngine.step_team_turn: [bs, lines, raised, out]. The counter goes up
\* and the header is logged; the living units of the acting team are fetched
\* and the AP gain of each is computed and added in turn; then the actors are
\* selected. The loop over the actors (lines 195-228) runs once per selected
\* actor: it is reached with the units that passed the AP gain, of which there
\* are none, and the step returns "".
step_team_turn(bs) ==
    LET tt == bs.team_turn + 1
        bs1 == [bs EXCEPT !.team_turn = tt]
        team == ActingTeam(bs1)
        rule == EngineRule(tt, bs.cfg)
        header == << Rule42, <<"TEAM TURN", tt, team>>, Rule42 >>
        Candidates(b1, sorted) ==
            IF rule.ignore_threshold THEN sorted
            ELSE SelectSeq(sorted, LAMBDA s : BoardGet(b1, team, s)[1].ap >= rule.ap_threshold)
    IN  Only({ Only({
            IF living.err # "" THEN StepRaised(bs1, header, living.err)
            ELSE IF living.units # << >>
            THEN StepRaised(bs1, header,
                            EngineApGain(BoardGet(b0, team, living.units[1])[1]).err)
            ELSE Only({
                    [bs |-> [bs1 EXCEPT !.board = b0, !.actors = chosen, !.phase = "idle"],
                     lines |-> header \o << ActorsLine(b0, team, rule, chosen) >>,
                     raised |-> "", out |-> ""]
                    : chosen \in {Take(Candidates(b0, SortByApDesc(b0, team, living.units)),
                                       rule.max_actors)} })
            : living \in {_living_team_units([bs1 EXCEPT !.board = b0], team)} })
            : b0 \in {EngineTick(bs.board, tt)} })

\* start_team_turn(state, team, team_turn, rule) called for the team-turn after
\* state.team_turn and the team whose turn that is: [bs, lines, raised, out,
\* team, team_turn]. It adds AP and selects the actors; state.team_turn is not
\* written. Its log lines come back in the plan it returns: a call that raises
\* returns none.
PlanBegin(bs, turn_rule) ==
    LET tt == bs.team_turn + 1
        team == team_for_team_turn(bs.starts_team, tt)
        rule == selection_params(tt, turn_rule)
    IN  Only({
            [bs |-> [bs EXCEPT !.board = r.board, !.actors = r.actors,
                               !.phase = IF r.raised # "" THEN "raised" ELSE "idle"],
             lines |-> IF r.raised # "" THEN << >>
                       ELSE [i \in 1 .. Len(r.gains) |->
                                ApLine(team, r.gains[i][1],
                                       BoardGet(r.board, team, r.gains[i][1])[1].ap
                                           - r.gains[i][2],
                                       BoardGet(r.board, team, r.gains[i][1])[1].ap)]
                            \o << ActorsLine(r.board, team, rule, r.actors) >>,
             raised |-> r.raised, out |-> "", team |-> team, team_turn |-> tt]
            : r \in {start_team_turn(bs.board, bs.order, team, tt, turn_rule)} })

\* BattleEngine.run: the loop has made max_team_turns steps without a winner
RunDraw(bs) == [bs EXCEPT !.phase = "over", !.winner = "DRAW"]

----------------------------------------------------------------------------
(* A battle: rosters, and the steps of one engine *)

Soldier == UnitBase(100, 50, 0, 0, 2)
Guard == UnitBase(100, 0, 0, 0, 1)

Quick == << Mod("mhr", "base", 50) >>
Heavy == << Mod("ap_gain", "base", -36) >>
Sluggish == << Mod("ap_gain", "base", -60) >>

\* a unit ready for battle: its lines are those of its gear, and it is
\* constructed with the stats they give, HP and MP at their maximum
Fighter(f) ==
    [StatsGiven(f.base,
                [PlainBuild EXCEPT !.gear = IF f.mods = << >> THEN None ELSE Some(f.mods)],
                f.mods)
        EXCEPT !.ap = f.ap, !.statuses = f.statuses, !.skill_cooldowns = f.cooldowns]

Enlist(base, mods, ap, statuses, cooldowns) ==
    [base |-> base, mods |-> mods, ap |-> ap, statuses |-> statuses, cooldowns |-> cooldowns]

NoStatuses == [form |-> "list", m |-> << >>]

Immobilized == [form |-> "insts", m |-> [k \in {"immobilized"} |-> StatusInstance(9, 1, {}, None)]]

Chilled == [form |-> "insts", m |-> [k \in {"chill"} |-> StatusInstance(9, 1, {}, None)]]

Fireball3 == Some([k \in {"fireball"} |-> 3])

\* the board on which the enlisted stand, each made ready for battle
RosterOf(enlisted) ==
    [id \in DOMAIN enlisted |-> Some(Fighter(enlisted[id]))] @@ EmptyBoard

PlainGuard == Enlist(Guard, << >>, 0, NoStatuses, None)

\* four against five
FullRoster ==
    RosterOf(
        ( <<"A", 1>> :> Enlist(Soldier, Quick, 0, NoStatuses, Fireball3) ) @@
        ( <<"A", 2>> :> Enlist(Guard, << >>, 120, Immobilized, None) ) @@
        ( <<"A", 3>> :> Enlist(Guard, Heavy, 0, NoStatuses, None) ) @@
        ( <<"A", 5>> :> PlainGuard ) @@
        ( <<"B", 1>> :> Enlist(Soldier, << >>, 250, NoStatuses, Fireball3) ) @@
        ( <<"B", 2>> :> PlainGuard ) @@
        ( <<"B", 3>> :> PlainGuard ) @@
        ( <<"B", 4>> :> Enlist(Guard, Sluggish, 0, Chilled, None) ) @@
        ( <<"B", 6>> :> PlainGuard ))

\* one against two, the second of them behind the empty front of line 3
Line3backRoster ==
    RosterOf(
        ( <<"A", 1>> :> Enlist(Soldier, << >>, 0, NoStatuses, Fireball3) ) @@
        ( <<"B", 1>> :> Enlist(Soldier, Quick, 0, NoStatuses, None) ) @@
        ( <<"B", 6>> :> Enlist(Guard, << >>, 0, Chilled, None) ))

\* one against two
SmallRoster ==
    RosterOf(
        ( <<"A", 1>> :> Enlist(Soldier, << >>, 0, NoStatuses, Fireball3) ) @@
        ( <<"B", 1>> :> Enlist(Soldier, Quick, 0, NoStatuses, None) ) @@
        ( <<"B", 2>> :> Enlist(Guard, << >>, 0, Chilled, None) ))

\* gear whose lines put the ap_gain stat next to a half: 100 * 1.1 * 0.95 and
\* 100 * 1.15 * 0.5 as floats, and 101 * 0.5
Brisk == << Mod("ap_gain", "more", 10), Mod("ap_gain", "less", 5) >>
Torn == << Mod("ap_gain", "more", 15), Mod("ap_gain", "less", 50) >>
Keen == << Mod("ap_gain", "inc", 5) >>
Halved == << Mod("ap_gain", "base", 1), Mod("ap_gain", "less", 50) >>

\* four against two, in that gear
RoundRoster ==
    RosterOf(
        ( <<"A", 1>> :> Enlist(Guard, Brisk, 0, NoStatuses, None) ) @@
        ( <<"A", 2>> :> Enlist(Guard, Torn, 0, NoStatuses, None) ) @@
        ( <<"A", 3>> :> Enlist(Guard, Keen, 0, NoStatuses, None) ) @@
        ( <<"A", 4>> :> Enlist(Guard, Halved, 0, NoStatuses, None) ) @@
        ( <<"B", 1>> :> Enlist(Guard, Torn, 43, NoStatuses, None) ) @@
        ( <<"B", 2>> :> Enlist(Guard, Brisk, 0, NoStatuses, None) ))

\* units as constructed, recompute_stats having stored nothing: no unit is alive
FreshRoster ==
    [id \in {<<"A", 1>>, <<"A", 2>>, <<"B", 1>>} |-> Some(NewUnit(Guard, PlainBuild))]
        @@ EmptyBoard

\* team B as constructed, against two of team A made ready
HalfRoster ==
    [id \in UnitIds |-> IF id[1] = "A" THEN SmallRoster[<<"B", id[2]>>]
                        ELSE FreshRoster[<<"A", id[2]>>]] @@ EmptyBoard

Rosters == { FullRoster, SmallRoster, FreshRoster, HalfRoster, RoundRoster }

BattleSeeds == { 0, 1 }

BS ==
    [board |-> board, attrs |-> inp.attrs, order |-> inp.order, team_turn |-> team_turn,
     starts_team |-> starts_team, rng |-> rng,
     cfg |-> inp.cfg, phase |-> phase, actors |-> actors, winner |-> winner]

SetBattle(bs) ==
    /\ board' = bs.board
    /\ team_turn' = bs.team_turn
    /\ starts_team' = bs.starts_team
    /\ rng' = bs.rng
    /\ phase' = bs.phase
    /\ actors' = bs.actors
    /\ winner' = bs.winner

\* the AP of every unit of the team is below ap
ApBelow(b, team, ap) ==
    \A s \in Slots : BoardGet(b, team, s) # None => BoardGet(b, team, s)[1].ap < ap

\* engine.step_team_turn(state), a public method: called in any state
StepTeamTurn ==
    /\ team_turn < MaxSteps
    /\ \E r \in {step_team_turn(BS)} :
           /\ SetBattle(r.bs)
           /\ ret' = [op |-> "step_team_turn", lines |-> r.lines, raised |-> r.raised,
                      out |-> r.out, before |-> board, team |-> ActingTeam(r.bs),
                      team_turn |-> r.bs.team_turn]
    /\ UNCHANGED <<inp, runs>>

\* start_team_turn(state, team, team_turn, rule) for the next team-turn, with
\* a rule of the caller's
StartTeamTurn ==
    /\ ApBelow(board, team_for_team_turn(starts_team, team_turn + 1), MaxAp)
    /\ \E rule \in SelectionRules :
       \E r \in {PlanBegin(BS, rule)} :
           /\ SetBattle(r.bs)
           /\ ret' = [op |-> "start_team_turn", lines |-> r.lines, raised |-> r.raised,
                      out |-> r.out, before |-> board, team |-> r.team,
                      team_turn |-> r.team_turn, rule |-> rule]
    /\ UNCHANGED <<inp, runs>>

\* _team_defeated(state, team), the victory check of the step
TeamDefeated ==
    /\ \E team \in Teams :
          \E r \in {_team_defeated(BS, team)} :
              ret' = [op |-> "_team_defeated", team |-> team, err |-> r.err, out |-> r.out,
                      lines |-> << >>, raised |-> r.err, before |-> board]
    /\ UNCHANGED <<inp, rng, board, team_turn, starts_team, phase, actors, winner, runs>>

\* the default configuration, and one whose normal maximum is below the team sizes
Configs ==
    { EngineConfig(MaxTeamTurns), [EngineConfig(MaxTeamTurns) EXCEPT !.normal_max_actors = 2] }

\* the battles set up: each configuration on a board filled slot by slot, and
\* the default one on a board filled back to front; the board is a Board, or a
\* board that offers team_units besides
Setups ==
    { [op |-> "battle", cfg |-> c, order |-> SlotOrder, attrs |-> a] :
      c \in Configs, a \in {BoardAttrs, ListingBoardAttrs} }
        \cup { [op |-> "battle", cfg |-> EngineConfig(MaxTeamTurns), order |-> BackToFront,
                attrs |-> ListingBoardAttrs] }

Init ==
    /\ inp \in Setups
    /\ ret = Idle
    /\ rng \in { RngSeed(s) : s \in BattleSeeds }
    /\ board \in Rosters
    /\ team_turn = 0
    /\ starts_team \in Teams
    /\ phase = "idle"
    /\ actors = << >>
    /\ winner = ""
    /\ runs = << >>

Next == StepTeamTurn \/ StartTeamTurn \/ TeamDefeated

Spec == Init /\ [][Next]_vars

----------------------------------------------------------------------------
(* BattleEngine.run: the loop of step_team_turn calls, which goes on until a
   step raises or reports a winner, or max_team_turns steps are made *)

\* the next iteration of the loop of run: it calls step_team_turn; the loop
\* counts its own iterations, kept in runs.made
RunStep ==
    /\ phase = "idle"
    /\ runs.made < inp.cfg.max_team_turns
    /\ \E r \in {step_team_turn(BS)} :
           /\ SetBattle(r.bs)
           /\ ret' = [op |-> "step_team_turn", lines |-> r.lines, raised |-> r.raised,
                      out |-> r.out, before |-> board, team |-> ActingTeam(r.bs),
                      team_turn |-> r.bs.team_turn]
    /\ runs' = [runs EXCEPT !.made = @ + 1]
    /\ UNCHANGED inp

\* run returns DRAW: the loop made max_team_turns iterations, none raised and
\* none reported a winner
Draw ==
    /\ phase = "idle"
    /\ runs.made = inp.cfg.max_team_turns
    /\ SetBattle(RunDraw(BS))
    /\ ret' = [op |-> "run", lines |-> << >>, raised |-> "", out |-> "DRAW", before |-> board,
               team |-> "", team_turn |-> team_turn]
    /\ UNCHANGED <<inp, runs>>

\* run is entered on a state whose team_turn is whatever the caller left
InitRun ==
    /\ inp \in Setups
    /\ ret = Idle
    /\ rng \in { RngSeed(s) : s \in BattleSeeds }
    /\ board \in Rosters
    /\ team_turn \in 0 .. MaxEntryTurn
    /\ starts_team \in Teams
    /\ phase = "idle"
    /\ actors = << >>
    /\ winner = ""
    /\ runs = [made |-> 0]

NextRun == RunStep \/ Draw

SpecRun == InitRun /\ [][NextRun]_vars /\ WF_vars(NextRun)

----------------------------------------------------------------------------
(* Two runs started from the same roster with the same seed: each calls run's
   steps and has attacks aimed, the target of each coming from
   pick_primary_target with the generator of its own BattleState *)

\* the largest number of attacks a run has aimed
MaxPicks == 2

\* an attack on the enemy's frontline that may be retargeted
RetargetSpec == TargetingSpec("enemy", "frontline", "single", TRUE)

\* a run: its BattleState, the iterations its loop has made, its log and the
\* targets aimed at
Run(bs) == [bs |-> bs, made |-> 0, log |-> << >>, picks |-> << >>]

\* the number of candidates the random pick of the run chooses among
PickRange(bs) ==
    1 .. Max(1, Len(primary_candidates(bs.board, OtherTeam(bs.starts_team),
                                       RetargetSpec.location)))

\* the run can make a further step of the loop of run
CanStep(r) == r.bs.phase = "idle" /\ r.made < r.bs.cfg.max_team_turns

\* the run can have a further attack aimed
CanAim(r) == Len(r.picks) < MaxPicks

\* the next move of a run: the next step of the loop of run, or an attack of the
\* starting team aimed at slot 3, in whose line no unit of either roster stands;
\* pick is what the process-wide random module gives this run
Advance(r, move, pick) ==
    IF move = "step"
    THEN Only({ [bs |-> a.bs, made |-> r.made + 1,
                 log |-> r.log \o a.lines \o << <<"raised", a.raised>> >>,
                 picks |-> r.picks] : a \in {step_team_turn(r.bs)} })
    ELSE Only({ [bs |-> [r.bs EXCEPT !.rng = t.st[1]], made |-> r.made, log |-> r.log,
                 picks |-> Append(r.picks, <<t.slot, t.reason>>)]
                : t \in {pick_primary_target(r.bs.board, r.bs.starts_team, RetargetSpec,
                                             Some(OtherTeam(r.bs.starts_team)),
                                             Some(3), Some(r.bs.rng),
                                             IF pick \in PickRange(r.bs) THEN pick ELSE 1)} })

\* both runs make the same move
TwoRunsStep ==
    /\ \E move \in {"step", "target"} :
          /\ move = "step" => CanStep(runs[1]) /\ CanStep(runs[2])
          /\ move = "target" => CanAim(runs[1]) /\ CanAim(runs[2])
          /\ \E pick1, pick2 \in 1 .. 2 :
                runs' = <<Advance(runs[1], move, pick1), Advance(runs[2], move, pick2)>>
          /\ ret' = [op |-> "two_runs", move |-> move]
    /\ UNCHANGED <<inp, rng, board, team_turn, starts_team, phase, actors, winner>>

InitTwoRuns ==
    /\ inp = [op |-> "two_runs", cfg |-> EngineConfig(MaxTeamTurns), order |-> SlotOrder,
              attrs |-> ListingBoardAttrs]
    /\ ret = Idle
    /\ rng = RngSeed(0)
    /\ board = EmptyBoard
    /\ team_turn = 0
    /\ starts_team = "A"
    /\ phase = "idle"
    /\ actors = << >>
    /\ winner = ""
    /\ \E seed \in Seeds, first \in Teams, roster \in {SmallRoster, FreshRoster} :
          runs = << Run(Battle(roster, inp.attrs, inp.order, first, seed, inp.cfg)),
                    Run(Battle(roster, inp.attrs, inp.order, first, seed, inp.cfg)) >>

NextTwoRuns == TwoRunsStep

SpecTwoRuns == InitTwoRuns /\ [][NextTwoRuns]_vars

----------------------------------------------------------------------------
(* Two battles of one process, each on its own engine and BattleState, their
   moves interleaved; and the first of them run alone from the same start *)

\* the hidden generator of Python's random module, one for the whole process:
\* a random.Random like any other, which nothing in the sources seeds, so the
\* interpreter seeds it from the operating system: its outputs are any sequence
ProcessRandomStates == [cls : {"Random"}, seed : {None}, stream : Streams, pos : {0}]

\* the outputs whose upper two bits read 0 and 1: of two candidates, random.choice
\* takes the first and the second
PickWords == { <<0, 0>>, <<16384, 0>> }

\* the streams followed for the process-wide generator: those of the table,
\* some of which have random.choice draw again, and for every sequence of
\* picks two battles can draw between them, each among at most two
\* candidates, a stream that gives it
PickStreams(max_picks) ==
    { MtWords[w] : w \in DOMAIN MtWords }
        \cup { StreamFrom(ws) : ws \in [1 .. 2 * max_picks -> PickWords] }

ProcessRandomDrawn(max_picks) ==
    { g \in { [cls |-> "Random", seed |-> None, stream |-> w, pos |-> 0] :
                w \in PickStreams(max_picks) } : g \in ProcessRandomStates }

\* the move draws its target from the process-wide module: the attack is
\* retargeted at random or aimed at random, by a generator with neither choice
\* nor roll_int
UsesPick(bs, move) ==
    /\ move = "target"
    /\ RngMethods(bs.rng) \cap {"choice", "roll_int"} = {}
    /\ pick_primary_target(bs.board, bs.starts_team, RetargetSpec,
                           Some(OtherTeam(bs.starts_team)), Some(3), Some(bs.rng),
                           1).reason \in {"retarget_random", "random"}

\* a run together with what it has drawn: draws, the values the random module
\* gave it, and seeded, the states its own RNG went through
Traced(bs) ==
    [bs |-> bs, made |-> 0, log |-> << >>, picks |-> << >>, draws |-> << >>,
     seeded |-> << bs.rng >>]

\* one move of a run that draws its target picks from the module state g:
\* [run, g], the run afterwards and the module state it leaves
AdvanceWith(r, move, g) ==
    Only({ Only({
        [run |-> [bs |-> a.bs, made |-> a.made, log |-> a.log, picks |-> a.picks,
                  draws |-> IF UsesPick(r.bs, move) THEN Append(r.draws, d.val) ELSE r.draws,
                  seeded |-> IF a.bs.rng # r.bs.rng THEN Append(r.seeded, a.bs.rng)
                             ELSE r.seeded],
         g |-> IF UsesPick(r.bs, move) THEN d.st ELSE g]
        : a \in {Advance([bs |-> r.bs, made |-> r.made, log |-> r.log, picks |-> r.picks],
                         move, d.val)} })
        : d \in {IF UsesPick(r.bs, move)
                 THEN SeededIndex(g, Cardinality(PickRange(r.bs)))
                 ELSE [val |-> 1, st |-> g]} })

\* the moves a run can make
Moves(r) ==
    (IF CanStep(r) THEN {"step"} ELSE {}) \cup (IF CanAim(r) THEN {"target"} ELSE {})

AloneStep ==
    /\ \E move \in Moves(runs.alone) :
          \E n \in {AdvanceWith(runs.alone, move, runs.alone_random)} :
              runs' = [runs EXCEPT !.alone = n.run, !.alone_random = n.g]
    /\ ret' = [op |-> "alone"]
    /\ UNCHANGED <<inp, rng, board, team_turn, starts_team, phase, actors, winner>>

FirstStep ==
    /\ Moves(runs.alone) = {}
    /\ \E move \in Moves(runs.first) :
          \E n \in {AdvanceWith(runs.first, move, runs.random)} :
              runs' = [runs EXCEPT !.first = n.run, !.random = n.g]
    /\ ret' = [op |-> "first"]
    /\ UNCHANGED <<inp, rng, board, team_turn, starts_team, phase, actors, winner>>

SecondStep ==
    /\ Moves(runs.alone) = {}
    /\ \E move \in Moves(runs.second) :
          \E n \in {AdvanceWith(runs.second, move, runs.random)} :
              runs' = [runs EXCEPT !.second = n.run, !.random = n.g]
    /\ ret' = [op |-> "second"]
    /\ UNCHANGED <<inp, rng, board, team_turn, starts_team, phase, actors, winner>>

InitInterleaved ==
    /\ inp = [op |-> "two_battles", cfg |-> EngineConfig(MaxTeamTurns), order |-> SlotOrder,
              attrs |-> ListingBoardAttrs]
    /\ ret = Idle
    /\ rng = RngSeed(0)
    /\ board = EmptyBoard
    /\ team_turn = 0
    /\ starts_team = "A"
    /\ phase = "idle"
    /\ actors = << >>
    /\ winner = ""
    /\ \E g \in ProcessRandomDrawn(MaxPicks), seed \in BattleSeeds,
          roster \in {SmallRoster, Line3backRoster} :
          runs = [ random |-> g, alone_random |-> g,
                   first |-> Traced(Battle(roster, inp.attrs, inp.order, "A", seed, inp.cfg)),
                   alone |-> Traced(Battle(roster, inp.attrs, inp.order, "A", seed, inp.cfg)),
                   second |-> Traced(Battle(roster, inp.attrs, inp.order, "A", 1 - seed,
                                            inp.cfg)) ]

NextInterleaved == AloneStep \/ FirstStep \/ SecondStep

SpecInterleaved == InitInterleaved /\ [][NextInterleaved]_vars

----------------------------------------------------------------------------
(* One unit: its statuses under apply_status, has_status and cleanup *)

\* largest remaining duration of a status the unit starts with
MaxRemaining == 2

\* largest duration passed to apply_status
MaxDuration == 2

StartKeys == {"immunity", "stun"}

ApplyKeys == {"immunity", "stun", "deliberate", "burn"}

ParamDicts == { {}, {<<"power", 1>>} }

SourceUids == { None, Some("B-1") }

Durations == { None } \cup { Some(d) : d \in (-1) .. MaxDuration }

StartInstances == { StatusInstance(r, 1, {}, None) : r \in 0 .. MaxRemaining }

KeyLists == { << >>, <<"immunity">>, <<"stun">>, <<"stun", "immunity">>, <<"deliberate">> }

ListStatuses == { [form |-> "list", m |-> l] : l \in KeyLists }

IntStatuses ==
    UNION { { [form |-> "ints", m |-> f] : f \in [ks -> 0 .. MaxRemaining] }
            : ks \in SUBSET StartKeys }

InstStatuses ==
    UNION { { [form |-> "insts", m |-> f] : f \in [ks -> StartInstances] }
            : ks \in SUBSET StartKeys }

ApplyStatus ==
    /\ \E key \in ApplyKeys, duration \in Durations, stacks_add \in {1, 2},
          params \in ParamDicts, source_uid \in SourceUids :
          LET r == apply_status(TheUnit.statuses, key, duration, stacks_add,
                                params, source_uid)
          IN  /\ board' = BoardWith([TheUnit EXCEPT !.statuses = r.statuses])
              /\ ret' = [op |-> "apply_status", key |-> key, duration |-> duration,
                         params |-> params, before |-> TheUnit.statuses,
                         err |-> r.err, out |-> r.out]
    /\ UNCHANGED <<inp, rng, team_turn, starts_team, phase, actors, winner, runs>>

HasStatus ==
    /\ \E key \in ApplyKeys :
          ret' = [op |-> "has_status", key |-> key,
                  out |-> has_status(TheUnit.statuses, key)]
    /\ board' = BoardWith([TheUnit EXCEPT !.statuses = EnsureStatusMap(@)])
    /\ UNCHANGED <<inp, rng, team_turn, starts_team, phase, actors, winner, runs>>

CleanupExpired ==
    /\ board' = BoardWith([TheUnit EXCEPT !.statuses = cleanup_expired_statuses(@)])
    /\ ret' = [op |-> "cleanup_expired_statuses"]
    /\ UNCHANGED <<inp, rng, team_turn, starts_team, phase, actors, winner, runs>>

InitStatus ==
    /\ inp = NoInput
    /\ ret = Idle
    /\ rng = RngSeed(0)
    /\ \/ \E st \in ListStatuses : board = BoardWith([UnitWithHp(1) EXCEPT !.statuses = st])
       \/ \E st \in IntStatuses : board = BoardWith([UnitWithHp(1) EXCEPT !.statuses = st])
       \/ \E st \in InstStatuses : board = BoardWith([UnitWithHp(1) EXCEPT !.statuses = st])
    /\ team_turn = 0
    /\ starts_team = "A"
    /\ phase = "idle"
    /\ actors = << >>
    /\ winner = ""
    /\ runs = << >>

NextStatus == ApplyStatus \/ HasStatus \/ CleanupExpired

SpecStatus == InitStatus /\ [][NextStatus]_vars

\* apply_two_turn_tick_to_unit(unit); a call that raises leaves the statuses as
\* they were
TickStatuses ==
    /\ \E r \in {apply_two_turn_tick_to_unit(TheUnit)} :
          /\ board' = BoardWith(r.unit)
          /\ ret' = [op |-> "two_turn_tick", before |-> TheUnit.statuses, err |-> r.err]
    /\ UNCHANGED <<inp, rng, team_turn, starts_team, phase, actors, winner, runs>>

NextApplyTick == ApplyStatus \/ TickStatuses

\* a unit on which statuses are applied and ticked, in any order
SpecApplyTick == InitStatus /\ [][NextApplyTick]_vars

(* One status on one unit, from the team-turn it is applied in until it is gone *)

\* latest team-turn in which the status is applied
MaxApplyTurn == 4

DurationKey == "slow"

\* how the status gets onto the unit: the remaining turns written into the dict
\* the tick iterates ("ints"), a StatusInstance written into the dict the
\* pipeline keeps ("insts"), or a call of apply_status
DurationInputs ==
    { [op |-> "status_duration", Y |-> y, X |-> x, how |-> h] :
        y \in 1 .. MaxApplyTurn, x \in 1 .. MaxDuration,
        h \in {"ints", "insts", "apply_status"} }

\* the start of the next team-turn: the counter goes up and the two-turn tick is
\* handed the new number
BeginTeamTurn ==
    /\ \/ phase = "idle" /\ team_turn < inp.Y
       \/ phase = "applied" /\ team_turn <= inp.Y + (2 * inp.X)
    /\ \E r \in {apply_two_turn_tick(board, team_turn + 1)} :
          /\ board' = r.board
          /\ ret' = [op |-> "begin_team_turn", ticked |-> r.ticked, err |-> r.err]
    /\ team_turn' = team_turn + 1
    /\ UNCHANGED <<inp, rng, starts_team, phase, actors, winner, runs>>

\* unit.statuses[key] = value, written during team-turn Y
WriteStatus ==
    /\ phase = "idle"
    /\ team_turn = inp.Y
    /\ inp.how \in {"ints", "insts"}
    /\ board' = BoardWith([TheUnit EXCEPT !.statuses =
            IF inp.how = "ints"
            THEN [form |-> "ints", m |-> [k \in {DurationKey} |-> inp.X]]
            ELSE [form |-> "insts",
                  m |-> [k \in {DurationKey} |-> StatusInstance(inp.X, 1, {}, None)]]])
    /\ ret' = [op |-> "write_status", err |-> FALSE, out |-> TRUE]
    /\ phase' = "applied"
    /\ UNCHANGED <<inp, rng, team_turn, starts_team, actors, winner, runs>>

\* apply_status(unit, key, duration = X), called during team-turn Y
ApplyInTurn ==
    /\ phase = "idle"
    /\ team_turn = inp.Y
    /\ inp.how = "apply_status"
    /\ \E r \in {apply_status(TheUnit.statuses, DurationKey, Some(inp.X), 1, {}, None)} :
          /\ board' = BoardWith([TheUnit EXCEPT !.statuses = r.statuses])
          /\ ret' = [op |-> "apply_status", err |-> r.err, out |-> r.out]
    /\ phase' = "applied"
    /\ UNCHANGED <<inp, rng, team_turn, starts_team, actors, winner, runs>>

InitDuration ==
    /\ inp \in DurationInputs
    /\ ret = Idle
    /\ rng = RngSeed(0)
    /\ board = BoardWith(UnitWithHp(1))
    /\ team_turn = 0
    /\ starts_team = "A"
    /\ phase = "idle"
    /\ actors = << >>
    /\ winner = ""
    /\ runs = << >>

NextDuration == BeginTeamTurn \/ WriteStatus \/ ApplyInTurn

SpecDuration == InitDuration /\ [][NextDuration]_vars

----------------------------------------------------------------------------
(* build_start_turn_frame on a unit that carries some statuses *)

\* most statuses a unit carries at once
MaxStatuses == 3

ControlKeys == {"stun", "immobilized", "silence", "disarm", "break"}

\* the parameters a status of the kind was applied with
FrameParams(k) ==
    CASE k = "panic" -> {<<"skill_damage_less_pct", 20>>}
      [] k = "weaken" -> {<<"attack_damage_less_pct", 30>>}
      [] k = "brand" -> {<<"damage_taken_more_pct", 25>>}
      [] k = "dull" -> {<<"accuracy_inc_pct", -15>>}
      [] k = "slow" -> {<<"ap_base_delta", -10>>}
      [] k = "chill" -> {<<"ap_base_delta", -7>>, <<"mhr_base_delta", -12>>}
      [] k = "shred" -> {<<"armour_base_delta", -3>>}
      [] k = "sunder" -> {<<"mr_base_delta", -4>>}
      [] OTHER -> {}

\* a key a unit is given that the catalogue does not hold
ForeignKeys == {"burn"}

FrameKeySets ==
    { K \in SUBSET (PositiveKeys \cup NegativeKeys \cup ForeignKeys) :
        Cardinality(K) <= MaxStatuses }
        \cup SUBSET ControlKeys

\* a status map: the keys, what remains of each (0: expired), with or without
\* parameters
FrameInputs ==
    { [op |-> "build_start_turn_frame",
       statuses |-> [form |-> "insts",
                     m |-> [k \in K |->
                              StatusInstance(r, 1, IF p THEN FrameParams(k) ELSE {}, None)]]]
      : K \in FrameKeySets, r \in 0 .. 1, p \in BOOLEAN }

CallFrame ==
    /\ inp.op = "build_start_turn_frame"
    /\ ret = Idle
    /\ \E r \in {build_start_turn_frame([UnitWithHp(1) EXCEPT !.statuses = inp.statuses])} :
          ret' = [op |-> "build_start_turn_frame", err |-> r.err, frame |-> r.frame,
                  statuses |-> r.unit.statuses]
    /\ UNCHANGED <<inp, rng, board, team_turn, starts_team, phase, actors, winner, runs>>

InitFrame ==
    /\ inp \in FrameInputs
    /\ ret = Idle
    /\ rng = RngSeed(0)
    /\ board = << >>
    /\ team_turn = 0
    /\ starts_team = "A"
    /\ phase = "idle"
    /\ actors = << >>
    /\ winner = ""
    /\ runs = << >>

NextFrame == CallFrame

SpecFrame == InitFrame /\ [][NextFrame]_vars

\* the living slots of the team, each paired with the team
AliveOf(b, team) ==
    Only({ [i \in 1 .. Len(alive) |-> <<team, alive[i]>>] : alive \in {alive_slots(b, team)} })

\* resolve_targets. Scope single: the target of pick_primary_target as a list,
\* empty when no team or no slot came back; scope team: every living slot of
\* the preferred team if the side allows it, else of the first team of the
\* side; any other scope: every living slot of team A, then of team B
resolve_targets(b, attacker_team, spec, preferred_team, preferred_slot, rng_, pick) ==
    IF spec.scope = "single"
    THEN Only({ IF t.team = None \/ t.slot = None THEN << >>
                ELSE << <<t.team[1], t.slot[1]>> >>
                : t \in {pick_primary_target(b, attacker_team, spec, preferred_team,
                                             preferred_slot, rng_, pick)} })
    ELSE IF spec.scope = "team"
    THEN Only({ AliveOf(b, IF preferred_team # None /\ InSeq(preferred_team[1], teams)
                           THEN preferred_team[1] ELSE teams[1])
                : teams \in {resolve_target_teams(attacker_team, spec.side)} })
    ELSE AliveOf(b, "A") \o AliveOf(b, "B")

----------------------------------------------------------------------------
(* pick_primary_target and resolve_targets on a board *)

\* most living units of the targeted team
MaxUnits == 3

\* most units beside the actor on the actor's team
MaxMates == 2

\* a team whose living units stand in the slots K; of the slots 1, 5 and 9 those
\* not in K hold a dead unit
TeamOf(K) ==
    [s \in Slots |-> IF s \in K THEN Some(UnitWithHp(1))
                     ELSE IF s \in {1, 5, 9} THEN Some(UnitWithHp(0)) ELSE None]

\* a team of units that are all alive (or all dead but the actor)
TeamAround(actor_slot, mates, alive) ==
    [s \in Slots |-> IF s = actor_slot THEN Some(UnitWithHp(1))
                     ELSE IF s \in mates THEN Some(UnitWithHp(IF alive THEN 1 ELSE 0))
                     ELSE None]

SelfSpecs ==
    { TargetingSpec(side, location, "single", TRUE) :
        side \in {"enemy", "ally", "self", "both"}, location \in {"anywhere", "frontline", "self"} }
    \ { TargetingSpec(side, location, "single", TRUE) :
        side \in {"enemy", "ally", "both"}, location \in {"anywhere", "frontline"} }

SelfInputs ==
    { [op |-> "pick_self", attacker_team |-> t, actor_slot |-> a, spec |-> sp,
       preferred_team |-> None, preferred_slot |-> None, rng |-> None] :
        t \in Teams, a \in Slots, sp \in SelfSpecs }

\* side and preferred team of a call by a unit of the team
Aims(t) ==
    { <<"enemy", None>>, <<"ally", None>>, <<"both", None>>, <<"both", Some(OtherTeam(t))>> }

\* the generator a call is handed: none, the RNG of a BattleState, or a
\* random.Random
PickGenerators == { None, Some(RngSeed(0)), Some(PyRandom(0)) }

PicksOf(t, aims, generators) ==
    { [op |-> "pick_primary_target", attacker_team |-> t, actor_slot |-> 1,
       spec |-> TargetingSpec(aim[1], location, "single", allow),
       preferred_team |-> aim[2], preferred_slot |-> ps, rng |-> g] :
        aim \in aims, location \in {"anywhere", "frontline"},
        allow \in BOOLEAN, ps \in {None} \cup { Some(x) : x \in Slots },
        g \in generators }

\* the calls of a unit of team A, and those of a unit of team B at its enemy
PickInputs ==
    PicksOf("A", Aims("A"), PickGenerators) \cup PicksOf("B", { <<"enemy", None>> }, {None})

\* the team a call aims at
AimedTeam(i) ==
    IF i.spec.side = "enemy" THEN OtherTeam(i.attacker_team)
    ELSE IF i.spec.side = "both" /\ i.preferred_team # None THEN i.preferred_team[1]
    ELSE i.attacker_team

\* the calls for a whole team or for everyone alive
ScopeInputs ==
    { [op |-> "resolve_targets", attacker_team |-> t, actor_slot |-> 1,
       spec |-> TargetingSpec(side, location, scope, TRUE),
       preferred_team |-> pt, preferred_slot |-> None, rng |-> None] :
        t \in Teams, side \in {"enemy", "ally", "both"},
        location \in {"anywhere", "frontline"}, scope \in {"team", "all_alive"},
        pt \in {None, Some("A"), Some("B")} }

\* the slots in which the living of a team stand in these calls
ScopeTeams == { {}, {4}, {1, 3}, {9} }

CallResolveTargets ==
    /\ inp.op = "resolve_targets"
    /\ ret = Idle
    /\ \E t \in {pick_primary_target(board, inp.attacker_team, inp.spec, inp.preferred_team,
                                      inp.preferred_slot, inp.rng, 1)} :
          ret' = [op |-> "resolve_targets", team |-> t.team, slot |-> t.slot,
                  reason |-> t.reason, st |-> t.st,
                  targets |-> resolve_targets(board, inp.attacker_team, inp.spec,
                                              inp.preferred_team, inp.preferred_slot,
                                              inp.rng, 1)]
    /\ UNCHANGED <<inp, rng, board, team_turn, starts_team, phase, actors, winner, runs>>

CallPickSelf ==
    /\ inp.op = "pick_self"
    /\ ret = Idle
    /\ \E t \in {pick_primary_target(board, inp.attacker_team, inp.spec, inp.preferred_team,
                                      inp.preferred_slot, inp.rng, 1)} :
          ret' = [op |-> "pick_self", team |-> t.team, slot |-> t.slot, reason |-> t.reason,
                  st |-> t.st,
                  targets |-> resolve_targets(board, inp.attacker_team, inp.spec,
                                              inp.preferred_team, inp.preferred_slot,
                                              inp.rng, 1)]
    /\ UNCHANGED <<inp, rng, board, team_turn, starts_team, phase, actors, winner, runs>>

CallPick ==
    /\ inp.op = "pick_primary_target"
    /\ ret = Idle
    /\ \E pick \in 1 .. (IF inp.rng = None THEN 1
                          ELSE Max(1, Len(primary_candidates(board, AimedTeam(inp),
                                                             inp.spec.location)))) :
          \E t \in {pick_primary_target(board, inp.attacker_team, inp.spec,
                                         inp.preferred_team, inp.preferred_slot,
                                         inp.rng, pick)} :
              ret' = [op |-> "pick_primary_target", team |-> t.team, slot |-> t.slot,
                      reason |-> t.reason, st |-> t.st,
                      targets |-> resolve_targets(board, inp.attacker_team, inp.spec,
                                                  inp.preferred_team, inp.preferred_slot,
                                                  inp.rng, pick)]
    /\ UNCHANGED <<inp, rng, board, team_turn, starts_team, phase, actors, winner, runs>>

InitTargeting ==
    /\ \/ /\ inp \in SelfInputs
          /\ \E mates \in SUBSET (Slots \ {inp.actor_slot}), alive \in BOOLEAN :
                /\ Cardinality(mates) <= MaxMates
                /\ board = BoardOf(
                      IF inp.attacker_team = "A"
                      THEN TeamAround(inp.actor_slot, mates, alive) ELSE LoneUnitTeam,
                      IF inp.attacker_team = "B"
                      THEN TeamAround(inp.actor_slot, mates, alive) ELSE LoneUnitTeam)
       \/ /\ inp \in PickInputs
          /\ \E K \in SUBSET Slots :
                /\ Cardinality(K) <= MaxUnits
                /\ AimedTeam(inp) = inp.attacker_team => K # {}
                /\ board = BoardOf(
                      IF AimedTeam(inp) = "A" THEN TeamOf(K) ELSE LoneUnitTeam,
                      IF AimedTeam(inp) = "B" THEN TeamOf(K) ELSE LoneUnitTeam)
       \/ /\ inp \in ScopeInputs
          /\ \E K1, K2 \in ScopeTeams : board = BoardOf(TeamOf(K1), TeamOf(K2))
    /\ ret = Idle
    /\ rng = RngSeed(0)
    /\ team_turn = 0
    /\ starts_team = "A"
    /\ phase = "idle"
    /\ actors = << >>
    /\ winner = ""
    /\ runs = << >>

NextTargeting == CallPickSelf \/ CallPick \/ CallResolveTargets

SpecTargeting == InitTargeting /\ [][NextTargeting]_vars

----------------------------------------------------------------------------
(* core/grid.py *)

ROWS == 3
COLS == 3

SLOT_TO_POS ==
    << [r |-> 0, c |-> 0], [r |-> 0, c |-> 1], [r |-> 0, c |-> 2],
       [r |-> 1, c |-> 0], [r |-> 1, c |-> 1], [r |-> 1, c |-> 2],
       [r |-> 2, c |-> 0], [r |-> 2, c |-> 1], [r |-> 2, c |-> 2] >>

slot_to_pos(slot) == SLOT_TO_POS[slot]

pos_to_slot(row, col) ==
    Only({ s \in DOMAIN SLOT_TO_POS : SLOT_TO_POS[s] = [r |-> row, c |-> col] })

left_of(slot) ==
    LET p == slot_to_pos(slot)
    IN  IF p.c - 1 < 0 THEN None ELSE Some(pos_to_slot(p.r, p.c - 1))

right_of(slot) ==
    LET p == slot_to_pos(slot)
    IN  IF p.c + 1 >= COLS THEN None ELSE Some(pos_to_slot(p.r, p.c + 1))

up_of(slot) ==
    LET p == slot_to_pos(slot)
    IN  IF p.r - 1 < 0 THEN None ELSE Some(pos_to_slot(p.r - 1, p.c))

down_of(slot) ==
    LET p == slot_to_pos(slot)
    IN  IF p.r + 1 >= ROWS THEN None ELSE Some(pos_to_slot(p.r + 1, p.c))

\* an optional slot is a tuple of no or one slot, so appending the ones that are
\* not None is concatenation
adjacent_horizontal(slot) == left_of(slot) \o right_of(slot)

cross_neighbors(slot) == left_of(slot) \o right_of(slot) \o up_of(slot) \o down_of(slot)

behind_in_line(slot, steps) ==
    IF steps <= 0 THEN Some(slot)
    ELSE LET p == slot_to_pos(slot)
         IN  IF p.r + steps >= ROWS THEN None ELSE Some(pos_to_slot(p.r + steps, p.c))

\* the neighbour functions the module defines; a caller that names another one
\* gets an AttributeError (through the module) or a NameError (a failed import)
GridNames ==
    {"left_of", "right_of", "up_of", "down_of",
     "adjacent_horizontal", "cross_neighbors", "behind_in_line"}

----------------------------------------------------------------------------
(* model/board.py: the neighbour functions of the board module *)

slot_to_rc(slot) == [r |-> (slot - 1) \div 3, c |-> (slot - 1) % 3]

rc_to_slot(r, c) == r * 3 + c + 1

adjacent_in_row(slot) ==
    LET p == slot_to_rc(slot)
    IN  (IF p.c - 1 >= 0 THEN << rc_to_slot(p.r, p.c - 1) >> ELSE << >>)
        \o (IF p.c + 1 <= 2 THEN << rc_to_slot(p.r, p.c + 1) >> ELSE << >>)

board_cross_neighbors(slot) ==
    LET p == slot_to_rc(slot)
    IN  (IF p.r - 1 >= 0 THEN << rc_to_slot(p.r - 1, p.c) >> ELSE << >>)
        \o (IF p.r + 1 <= 2 THEN << rc_to_slot(p.r + 1, p.c) >> ELSE << >>)
        \o (IF p.c - 1 >= 0 THEN << rc_to_slot(p.r, p.c - 1) >> ELSE << >>)
        \o (IF p.c + 1 <= 2 THEN << rc_to_slot(p.r, p.c + 1) >> ELSE << >>)

board_behind_in_line(slot, steps) ==
    LET p == slot_to_rc(slot)
    IN  IF p.r + steps > 2 THEN None ELSE Some(rc_to_slot(p.r + steps, p.c))

----------------------------------------------------------------------------
(* rules/aoe.py *)

AoETarget(slot, ratio) == [slot |-> slot, ratio |-> ratio]

\* a shape is a member of the enum (its name counts, in lower case) or a
\* string (stripped, then in lower case)
_aoe_key(aoe) == IF aoe.kind = "enum" THEN LowerStr(aoe.name) ELSE LowerStr(Strip(aoe.s))

RECURSIVE DedupeLoop(_, _, _)
DedupeLoop(items, seen, out) ==
    IF items = << >> THEN out
    ELSE IF Head(items).slot \in seen
         THEN DedupeLoop(Tail(items), seen, out)
         ELSE DedupeLoop(Tail(items), seen \cup {Head(items).slot},
                         Append(out, Head(items)))

_dedupe_keep_order(items) == DedupeLoop(items, {}, << >>)

RECURSIVE BehindLoop(_, _, _, _)
BehindLoop(target_slot, step, max_steps, out) ==
    IF step > max_steps THEN out
    ELSE IF behind_in_line(target_slot, step) = None THEN out
         ELSE BehindLoop(target_slot, step + 1, max_steps,
                         out \o behind_in_line(target_slot, step))

_line_behind_slots(target_slot, max_steps) == BehindLoop(target_slot, 1, max_steps, << >>)

\* the result of a call: the list it returns, or the exception it raises
Returned(out) == [raised |-> "", out |-> out]
Raised(exc) == [raised |-> exc, out |-> << >>]

Splash(slots, ratio) == [i \in 1 .. Len(slots) |-> AoETarget(slots[i], ratio)]

Pierce(behind, aoe_ratio_1, aoe_ratio_2) ==
    (IF Len(behind) >= 1 THEN << AoETarget(behind[1], aoe_ratio_2) >> ELSE << >>)
    \o (IF Len(behind) >= 2 THEN << AoETarget(behind[2], aoe_ratio_1) >> ELSE << >>)

resolve_weapon_aoe(target_slot, aoe, aoe_ratio_1, aoe_ratio_2) ==
    LET key == _aoe_key(aoe)
        out == << AoETarget(target_slot, FInt(1)) >>
    IN  IF key \in {"single", "none"} THEN Returned(out)
        ELSE IF key \in {"adjacent_1", "adjacent", "row_adjacent"}
        THEN IF "horizontal_neighbors" \in GridNames
             THEN Returned(_dedupe_keep_order(
                      out \o Splash(adjacent_horizontal(target_slot), aoe_ratio_1)))
             ELSE Raised("AttributeError")
        ELSE IF key \in {"cross", "cross_1", "plus"}
        THEN Returned(_dedupe_keep_order(
                 out \o Splash(cross_neighbors(target_slot), aoe_ratio_1)))
        ELSE IF key \in {"line", "column", "pierce", "line_2"}
        THEN Returned(_dedupe_keep_order(
                 out \o Pierce(_line_behind_slots(target_slot, 2), aoe_ratio_1, aoe_ratio_2)))
        ELSE IF key \in {"behind_1", "pierce_1"}
        THEN Returned(_dedupe_keep_order(
                 out \o Splash(behind_in_line(target_slot, 1), aoe_ratio_1)))
        ELSE IF key \in {"behind_2", "pierce_2"}
        THEN Returned(_dedupe_keep_order(
                 out \o Pierce(_line_behind_slots(target_slot, 2), aoe_ratio_1, aoe_ratio_2)))
        ELSE Returned(out)

----------------------------------------------------------------------------
(* rules/skills/active.py: the resolver of a skill's shape *)

RECURSIVE AppendNew(_, _)
AppendNew(out, slots) ==
    IF slots = << >> THEN out
    ELSE AppendNew(IF InSeq(Head(slots), out) THEN out ELSE Append(out, Head(slots)),
                   Tail(slots))

_resolve_aoe_slots(primary_slot, aoe) ==
    LET key == Strip(LowerStr(IF aoe = "" THEN "single" ELSE aoe))
        out == << primary_slot >>
    IN  IF key = "single" THEN Returned(out)
        ELSE IF key = "adjacent_1"
        THEN IF "row_neighbors" \in GridNames
             THEN Returned(AppendNew(out, adjacent_horizontal(primary_slot)))
             ELSE Raised("NameError")
        ELSE IF key = "cross"
        THEN Returned(AppendNew(out, cross_neighbors(primary_slot)))
        ELSE IF key = "line_2"
        THEN Returned(AppendNew(AppendNew(out, behind_in_line(primary_slot, 1)),
                                behind_in_line(primary_slot, 2)))
        ELSE Returned(out)

----------------------------------------------------------------------------
(* The shape of an area hit, from every primary slot *)

Str(s) == [kind |-> "str", s |-> s]
Member(name) == [kind |-> "enum", name |-> name]

ShapeKeys ==
    {"single", "none", "adjacent_1", "adjacent", "row_adjacent", "cross", "cross_1",
     "plus", "line", "column", "pierce", "line_2", "behind_1", "pierce_1", "behind_2",
     "pierce_2", "single_target", "Cross", "PLUS", "Adjacent_1", "Pierce", "Single",
     "NONE", "LINE_2", "Behind_1", "COLUMN", " cross", "cross ", "cro ss"}

WeaponAOE == {"SINGLE", "ADJACENT_1", "LINE", "CROSS"}

Shapes == { Str(s) : s \in ShapeKeys } \cup { Member(n) : n \in WeaponAOE }

\* the default ratios, and a pair a weapon may define
RatioPairs == { <<FLit(1, 2), FLit(3, 4)>>, <<FLit(2, 5), FLit(9, 10)>> }

SkillShapes ==
    {"single", "adjacent_1", "cross", "line_2", "", "Line_2", "line", " cross", "Cross ",
     "LINE_2", "Adjacent_1", " "}

GridFns == {"adjacent_horizontal", "cross_neighbors", "behind_in_line",
            "adjacent_in_row", "board.cross_neighbors", "board.behind_in_line"}

AoeInputs ==
    { [op |-> "resolve_weapon_aoe", target_slot |-> s, aoe |-> a,
       aoe_ratio_1 |-> p[1], aoe_ratio_2 |-> p[2]]
      : s \in Slots, a \in Shapes, p \in RatioPairs }
    \cup { [op |-> "_resolve_aoe_slots", primary_slot |-> s, aoe |-> a]
           : s \in Slots, a \in SkillShapes }
    \cup { [op |-> "neighbours", fn |-> f, slot |-> s, steps |-> n]
           : f \in GridFns, s \in Slots, n \in 0 .. 2 }

CallResolveWeaponAoe ==
    /\ inp.op = "resolve_weapon_aoe"
    /\ ret = Idle
    /\ \E r \in {resolve_weapon_aoe(inp.target_slot, inp.aoe,
                                    inp.aoe_ratio_1, inp.aoe_ratio_2)} :
          ret' = [op |-> "resolve_weapon_aoe", raised |-> r.raised, out |-> r.out]
    /\ UNCHANGED <<inp, rng, board, team_turn, starts_team, phase, actors, winner, runs>>

CallResolveAoeSlots ==
    /\ inp.op = "_resolve_aoe_slots"
    /\ ret = Idle
    /\ \E r \in {_resolve_aoe_slots(inp.primary_slot, inp.aoe)} :
          ret' = [op |-> "_resolve_aoe_slots", raised |-> r.raised, out |-> r.out]
    /\ UNCHANGED <<inp, rng, board, team_turn, starts_team, phase, actors, winner, runs>>

Neighbours(fn, slot, steps) ==
    CASE fn = "adjacent_horizontal" -> adjacent_horizontal(slot)
      [] fn = "cross_neighbors" -> cross_neighbors(slot)
      [] fn = "behind_in_line" -> behind_in_line(slot, steps)
      [] fn = "adjacent_in_row" -> adjacent_in_row(slot)
      [] fn = "board.cross_neighbors" -> board_cross_neighbors(slot)
      [] fn = "board.behind_in_line" -> board_behind_in_line(slot, steps)

CallNeighbours ==
    /\ inp.op = "neighbours"
    /\ ret = Idle
    /\ ret' = [op |-> "neighbours", out |-> Neighbours(inp.fn, inp.slot, inp.steps)]
    /\ UNCHANGED <<inp, rng, board, team_turn, starts_team, phase, actors, winner, runs>>

InitAoe ==
    /\ inp \in AoeInputs
    /\ ret = Idle
    /\ rng = RngSeed(0)
    /\ board = << >>
    /\ team_turn = 0
    /\ starts_team = "A"
    /\ phase = "idle"
    /\ actors = << >>
    /\ winner = ""
    /\ runs = << >>

NextAoe == CallResolveWeaponAoe \/ CallResolveAoeSlots \/ CallNeighbours

SpecAoe == InitAoe /\ [][NextAoe]_vars

----------------------------------------------------------------------------
(* The skills catalogue (data/skills_data.py is not part of the sources): the
   active skills by key, each with its costs, its base cooldown and its shape *)

ActiveSkill(key, ap_cost, mp_cost, cooldown, aoe) ==
    [key |-> key, ap_cost |-> ap_cost, mp_cost |-> mp_cost, cooldown |-> cooldown, aoe |-> aoe]

ActiveSkills ==
    ( "fireball" :> ActiveSkill("fireball", 100, 50, 2, "cross") ) @@
    ( "mend" :> ActiveSkill("mend", 50, 20, 1, "single") )

get_active_skill(skill_key) == ActiveSkills[skill_key]

\* skill_base_cooldowns, the map start_battle_cooldown_lock is handed
skill_base_cooldowns == [k \in DOMAIN ActiveSkills |-> ActiveSkills[k].cooldown]

----------------------------------------------------------------------------
(* rules/skills/active.py: casting *)

\* a unit that owns skills: u.skills, and u.cooldowns, the attribute this module
\* keeps (absent until _get_cd_map sets it)
Caster(u, skills) == [skills |-> skills, cooldowns |-> None] @@ u

\* _get_cd_map: the unit after the call carries a cooldowns dict
_get_cd_map(unit) == IF unit.cooldowns = None THEN [unit EXCEPT !.cooldowns = Some(<< >>)] ELSE unit

cd_remaining(unit, skill_key) ==
    LET cd == _get_cd_map(unit).cooldowns[1]
    IN  IF skill_key \in DOMAIN cd THEN cd[skill_key] ELSE 0

set_cooldown(unit, skill_key, value) ==
    LET u1 == _get_cd_map(unit)
        cd == u1.cooldowns[1]
        v == IF value > 0 THEN value ELSE 0
    IN  [u1 EXCEPT !.cooldowns =
            Some([k \in DOMAIN cd \cup {skill_key} |-> IF k = skill_key THEN v ELSE cd[k]])]

\* a plausible slip: the AP check is left out
can_cast_active_no_ap_check(unit, skill_key) ==
    LET u1 == _get_cd_map(unit)
        skill == get_active_skill(skill_key)
        mp == FTrunc(unit.mp)
    IN  IF cd_remaining(unit, skill_key) > 0
        THEN [ok |-> FALSE, reason |-> "cooldown remaining", unit |-> u1]
        ELSE IF mp < skill.mp_cost
        THEN [ok |-> FALSE, reason |-> "not enough MP", unit |-> u1]
        ELSE [ok |-> TRUE, reason |-> "ok", unit |-> u1]

\* can_cast_active: the Unit class has no attribute alive, so the first test
\* passes for every unit; AP and MP are read through int()
can_cast_active(unit, skill_key) ==
    LET u1 == _get_cd_map(unit)
        skill == get_active_skill(skill_key)
        ap == unit.ap
        mp == FTrunc(unit.mp)
    IN  IF cd_remaining(unit, skill_key) > 0
        THEN [ok |-> FALSE, reason |-> "cooldown remaining", unit |-> u1]
        ELSE IF ap < skill.ap_cost
        THEN [ok |-> FALSE, reason |-> "not enough AP", unit |-> u1]
        ELSE IF mp < skill.mp_cost
        THEN [ok |-> FALSE, reason |-> "not enough MP", unit |-> u1]
        ELSE [ok |-> TRUE, reason |-> "ok", unit |-> u1]

ActiveCastPlan(skill, target_slots) ==
    Some([skill_key |-> skill.key, target_slots |-> target_slots, ap_cost |-> skill.ap_cost,
          mp_cost |-> skill.mp_cost, cooldown_set_to |-> skill.cooldown])

\* build_active_cast_plan: [raised, reason, caster, plan]; the resources are
\* spent and the cooldown is set before the shape is resolved
build_active_cast_plan(caster, skill_key, target_team, target_slot) ==
    Only({ Only({
        LET skill == get_active_skill(skill_key)
            spent == [can.unit EXCEPT !.ap = can.unit.ap - skill.ap_cost,
                                      !.mp = FInt(FTrunc(can.unit.mp) - skill.mp_cost)]
            after == set_cooldown(spent, skill_key, skill.cooldown)
        IN  IF ~can.ok
            THEN [raised |-> "SkillCastError", reason |-> can.reason, caster |-> can.unit,
                  plan |-> None]
            ELSE IF slots.raised # ""
            THEN [raised |-> slots.raised, reason |-> "", caster |-> after, plan |-> None]
            ELSE [raised |-> "", reason |-> "ok", caster |-> after,
                  plan |-> ActiveCastPlan(skill, slots.out)]
        : slots \in {_resolve_aoe_slots(target_slot, get_active_skill(skill_key).aoe)} })
        : can \in {can_cast_active(caster, skill_key)} })

----------------------------------------------------------------------------
(* rules/cooldowns.py: the lock at the start of a battle *)

RECURSIVE LockLoop(_, _, _)
LockLoop(cds, skills, base_cooldowns) ==
    IF skills = << >> THEN cds
    ELSE LET sk == Head(skills)
             base_cd == IF sk \in DOMAIN base_cooldowns THEN base_cooldowns[sk] ELSE 0
         IN  LockLoop(IF base_cd > 0
                      THEN [k \in DOMAIN cds \cup {sk} |-> IF k = sk THEN base_cd ELSE cds[k]]
                      ELSE cds,
                      Tail(skills), base_cooldowns)

\* start_battle_cooldown_lock on one unit that has a skills list
start_battle_cooldown_lock(u, base_cooldowns) ==
    LET cds == IF u.skill_cooldowns = None THEN << >> ELSE u.skill_cooldowns[1]
    IN  [u EXCEPT !.skill_cooldowns = Some(LockLoop(cds, u.skills, base_cooldowns))]

----------------------------------------------------------------------------
(* One caster through a battle: the lock, team-turns that add AP, two-turn
   ticks and casts *)

MaxCastTurns == 4

Mage == UnitBase(100, 0, 0, 1, 1)

Drained == << Mod("ap_gain", "base", -160) >>

HeavyAttuned == << Mod("ap_gain", "base", -36), Mod("mp", "base", 1), Mod("mp", "inc", 50) >>

Parched == << Mod("mp", "less", 70) >>

CasterInputs ==
    { [op |-> "cast", caster |-> Caster(Fighter(Enlist(Mage, m, ap, st, None)),
                                        <<"fireball", "mend">>)]
      : m \in {<< >>, Drained, HeavyAttuned, Parched}, ap \in {0, 120}, st \in {NoStatuses, Chilled} }

TheCaster == board[<<"A", 1>>][1]

InBattle == phase \in {"locked", "started", "gained", "ticked"}

\* the setup of a battle locks the skills of every unit
BattleStartLock ==
    /\ phase = "setup"
    /\ board' = [board EXCEPT ![<<"A", 1>>] =
                    Some(start_battle_cooldown_lock(TheCaster, skill_base_cooldowns))]
    /\ phase' = "locked"
    /\ ret' = [op |-> "start_battle_cooldown_lock"]
    /\ UNCHANGED <<inp, rng, team_turn, starts_team, actors, winner, runs>>

\* start_team_turn on the caster's team for the team-turn the engine has
\* counted (turn_order.py): the gain is rounded, the start-turn frame can change
\* or block it
StartTurnGain ==
    /\ phase = "started"
    /\ \E r \in {start_team_turn(board, <<1>>, "A", team_turn, TurnSelectionRule)} :
          /\ board' = r.board
          /\ ret' = [op |-> "start_team_turn", raised |-> r.raised,
                     gain |-> IF r.gains = << >> THEN 0 ELSE r.gains[1][2]]
    /\ phase' = "gained"
    /\ UNCHANGED <<inp, rng, team_turn, starts_team, actors, winner, runs>>

\* step_team_turn up to its AP gain phase (engine.py): the counter goes up
EngineGain ==
    /\ InBattle
    /\ team_turn < MaxCastTurns
    /\ team_turn' = team_turn + 1
    /\ \E g \in {EngineApGain(TheCaster)} :
          /\ board' = IF g.err # "" THEN board
                      ELSE [board EXCEPT ![<<"A", 1>>] = Some([TheCaster EXCEPT !.ap = @ + g.gain])]
          /\ ret' = [op |-> "step_team_turn", gain |-> g.gain, raised |-> g.err]
    /\ phase' = "started"
    /\ UNCHANGED <<inp, rng, starts_team, actors, winner, runs>>

\* apply_two_turn_tick, called once in a team-turn
TwoTurnTick ==
    /\ phase \in {"started", "gained"}
    /\ \E r \in {apply_two_turn_tick(board, team_turn)} :
          /\ board' = r.board
          /\ ret' = [op |-> "apply_two_turn_tick", ticked |-> r.ticked, err |-> r.err]
    /\ phase' = "ticked"
    /\ UNCHANGED <<inp, rng, team_turn, starts_team, actors, winner, runs>>

CanCast ==
    /\ InBattle
    /\ \E sk \in DOMAIN ActiveSkills :
       \E r \in {can_cast_active(TheCaster, sk)} :
          /\ board' = [board EXCEPT ![<<"A", 1>>] = Some(r.unit)]
          /\ ret' = [op |-> "can_cast_active", skill_key |-> sk, team_turn |-> team_turn,
                     before |-> TheCaster, ok |-> r.ok, reason |-> r.reason]
    /\ UNCHANGED <<inp, rng, team_turn, starts_team, phase, actors, winner, runs>>

Cast ==
    /\ InBattle
    /\ \E sk \in DOMAIN ActiveSkills :
       \E r \in {build_active_cast_plan(TheCaster, sk, "B", 5)} :
          /\ board' = [board EXCEPT ![<<"A", 1>>] = Some(r.caster)]
          /\ ret' = [op |-> "build_active_cast_plan", skill_key |-> sk,
                     team_turn |-> team_turn, before |-> TheCaster,
                     raised |-> r.raised, reason |-> r.reason, plan |-> r.plan]
    /\ UNCHANGED <<inp, rng, team_turn, starts_team, phase, actors, winner, runs>>

InitCast ==
    /\ inp \in CasterInputs
    /\ ret = Idle
    /\ rng = RngSeed(0)
    /\ board = ( <<"A", 1>> :> Some(inp.caster) )
    /\ team_turn = 0
    /\ starts_team = "A"
    /\ phase = "setup"
    /\ actors = << >>
    /\ winner = ""
    /\ runs = << >>

NextCast == BattleStartLock \/ StartTurnGain \/ EngineGain \/ TwoTurnTick \/ CanCast \/ Cast

SpecCast == InitCast /\ [][NextCast]_vars

(* start_team_turn on a team whose first unit carries some statuses *)

\* most statuses the unit carries when its team-turn starts
MaxCarried == 2

\* the modifiers and the AP of the first unit, and the team-turn that starts
StartTurnCases == { << << >>, 0, 1 >>, << Heavy, 120, 1 >>, << << >>, 0, 5 >> }

\* the sets of at most max_carried status keys: shipped kinds and a foreign key
CarriedKeySets(max_carried) ==
    { S \in SUBSET (PositiveKeys \cup NegativeKeys \cup ForeignKeys) :
        Cardinality(S) <= max_carried }

\* the board of a case, its first unit carrying nothing yet
StartTurnBoard(c) ==
    RosterOf(( <<"A", 1>> :> Enlist(Guard, c[1], c[2], NoStatuses, None) ) @@
             ( <<"A", 2>> :> PlainGuard ) @@
             ( <<"B", 1>> :> PlainGuard ))

\* the cases with their boards (the comparison has each board computed once)
StartTurnBoards ==
    { cb \in { << c, StartTurnBoard(c) >> : c \in StartTurnCases } : cb[2] = cb[2] }

\* the board with the first unit of team A carrying the statuses
Carrying(b, statuses) ==
    [b EXCEPT ![<<"A", 1>>] = Some([@[1] EXCEPT !.statuses = statuses])]

StartTurnInputs(max_carried) ==
    { [op |-> "start_team_turn", team_turn |-> cb[1][3],
       board |-> Carrying(cb[2],
                          [form |-> "insts",
                           m |-> [k \in K |->
                                    StatusInstance(r, 1,
                                        IF p THEN FrameParams(k) ELSE {}, None)]])]
      : K \in CarriedKeySets(max_carried), r \in 0 .. 1, p \in BOOLEAN,
        cb \in StartTurnBoards }

\* start_team_turn(board, "A", team_turn): the contexts it builds, the AP it
\* adds and the actors it selects
CallStartTeamTurn ==
    /\ inp.op = "start_team_turn"
    /\ ret = Idle
    /\ \E r \in {start_team_turn(board, SlotOrder, "A", inp.team_turn, TurnSelectionRule)} :
          /\ board' = r.board
          /\ actors' = r.actors
          /\ ret' = [op |-> "start_team_turn", raised |-> r.raised,
                     contexts |-> [s \in { r.gains[i][1] : i \in 1 .. Len(r.gains) } |->
                                     build_start_turn_frame(BoardGet(board, "A", s)[1]).frame],
                     gains |-> r.gains, before |-> board]
    /\ UNCHANGED <<inp, rng, team_turn, starts_team, phase, winner, runs>>

InitStartTurn ==
    /\ inp \in StartTurnInputs(MaxCarried)
    /\ ret = Idle
    /\ rng = RngSeed(0)
    /\ board = inp.board
    /\ team_turn = inp.team_turn - 1
    /\ starts_team = "A"
    /\ phase = "idle"
    /\ actors = << >>
    /\ winner = ""
    /\ runs = << >>

NextStartTurn == CallStartTeamTurn

SpecStartTurn == InitStartTurn /\ [][NextStartTurn]_vars

----------------------------------------------------------------------------
(* One equipped unit: its stats are computed, then its team-turn starts *)

PassiveChoices == { None } \cup { Some(n) : n \in 0 .. 3 }

EquipInputs ==
    { [op |-> "equip", statuses |-> st,
       build |-> UnitBuild(wk, wp, ok, IF ok = None THEN Some(0) ELSE op, None, 4000)] :
      wk \in DOMAIN WEAPONS, wp \in PassiveChoices,
      ok \in { None } \cup { Some(k) : k \in DOMAIN OFFHANDS }, op \in PassiveChoices,
      st \in {NoStatuses, Chilled} }

\* unit.recompute_stats() on the unit with the build; when it raises the unit is
\* left as it was
RecomputeEquipped ==
    /\ inp.op = "equip"
    /\ phase = "idle"
    /\ \E r \in {recompute_stats(TheUnit)} :
          /\ board' = BoardWith(r.unit)
          /\ ret' = [op |-> "recompute_stats", err |-> r.err, st |-> r.st]
    /\ phase' = "ready"
    /\ UNCHANGED <<inp, rng, team_turn, starts_team, actors, winner, runs>>

\* start_team_turn for the unit's team
StartTurnEquipped ==
    /\ inp.op = "equip"
    /\ phase = "ready"
    /\ \E r \in {start_team_turn(board, SlotOrder, "A", team_turn + 1, TurnSelectionRule)} :
          /\ board' = r.board
          /\ actors' = r.actors
          /\ ret' = [op |-> "start_team_turn", raised |-> r.raised, ap_before |-> TheUnit.ap,
                     gain |-> r.gains[1][2]]
    /\ phase' = "started"
    /\ UNCHANGED <<inp, rng, team_turn, starts_team, winner, runs>>

InitEquip ==
    /\ inp \in EquipInputs
    /\ ret = Idle
    /\ rng = RngSeed(0)
    /\ board = BoardWith([UnitWithHp(1) EXCEPT !.statuses = inp.statuses, !.build = inp.build])
    /\ team_turn = 0
    /\ starts_team = "A"
    /\ phase = "idle"
    /\ actors = << >>
    /\ winner = ""
    /\ runs = << >>

NextEquip == RecomputeEquipped \/ StartTurnEquipped

SpecEquip == InitEquip /\ [][NextEquip]_vars

(* One caster after a skill went on cooldown: two-turn ticks and checks *)

\* put_skill_on_cooldown (rules/cooldowns.py)
put_skill_on_cooldown(u, skill_key, base_cd) ==
    LET cds == IF u.skill_cooldowns = None THEN << >> ELSE u.skill_cooldowns[1]
        v == IF base_cd > 0 THEN base_cd ELSE 0
    IN  [u EXCEPT !.skill_cooldowns =
            Some([k \in DOMAIN cds \cup {skill_key} |-> IF k = skill_key THEN v ELSE cds[k]])]

\* build_active_cast_plan by the caster; a cast that goes through starts the
\* count of the ticks that follow it
CastSkill ==
    /\ phase = "ready"
    /\ \E sk \in DOMAIN ActiveSkills :
       \E r \in {build_active_cast_plan(TheCaster, sk, "B", 5)} :
          /\ board' = [board EXCEPT ![<<"A", 1>>] = Some(r.caster)]
          /\ ret' = [op |-> "build_active_cast_plan", skill_key |-> sk, raised |-> r.raised]
          /\ IF r.raised = ""
             THEN /\ phase' = "cooling"
                  /\ runs' = [skill |-> sk, how |-> "cast", ticks |-> 0]
             ELSE UNCHANGED <<phase, runs>>
    /\ UNCHANGED <<inp, rng, team_turn, starts_team, actors, winner>>

\* put_skill_on_cooldown(caster, skill, base cooldown)
PutOnCooldown ==
    /\ phase = "ready"
    /\ \E sk \in DOMAIN ActiveSkills :
          /\ board' = [board EXCEPT ![<<"A", 1>>] =
                          Some(put_skill_on_cooldown(TheCaster, sk, ActiveSkills[sk].cooldown))]
          /\ ret' = [op |-> "put_skill_on_cooldown", skill_key |-> sk]
          /\ runs' = [skill |-> sk, how |-> "put", ticks |-> 0]
    /\ phase' = "cooling"
    /\ UNCHANGED <<inp, rng, team_turn, starts_team, actors, winner>>

\* apply_two_turn_tick_to_unit(caster)
TickCaster ==
    /\ phase = "cooling"
    /\ runs.ticks < MaxCastTurns
    /\ \E r \in {apply_two_turn_tick_to_unit(TheCaster)} :
          /\ board' = [board EXCEPT ![<<"A", 1>>] = Some(r.unit)]
          /\ ret' = [op |-> "two_turn_tick", err |-> r.err]
    /\ runs' = [runs EXCEPT !.ticks = @ + 1]
    /\ UNCHANGED <<inp, rng, team_turn, starts_team, phase, actors, winner>>

\* can_cast_active and is_skill_ready for the skill that went on cooldown
CheckCast ==
    /\ phase = "cooling"
    /\ \E r \in {can_cast_active(TheCaster, runs.skill)} :
          /\ board' = [board EXCEPT ![<<"A", 1>>] = Some(r.unit)]
          /\ ret' = [op |-> "can_cast_active", skill_key |-> runs.skill,
                     ticks |-> runs.ticks, ok |-> r.ok, reason |-> r.reason,
                     ready |-> is_skill_ready(TheCaster, runs.skill)]
    /\ UNCHANGED <<inp, rng, team_turn, starts_team, phase, actors, winner, runs>>

InitRecast ==
    /\ inp \in CasterInputs
    /\ ret = Idle
    /\ rng = RngSeed(0)
    /\ board = ( <<"A", 1>> :> Some(inp.caster) )
    /\ team_turn = 0
    /\ starts_team = "A"
    /\ phase = "ready"
    /\ actors = << >>
    /\ winner = ""
    /\ runs = [skill |-> "", how |-> "", ticks |-> 0]

NextRecast == CastSkill \/ PutOnCooldown \/ TickCaster \/ CheckCast

SpecRecast == InitRecast /\ [][NextRecast]_vars

(* The two selections of a team-turn on the same board *)

\* what stands in a slot of the acting team
Recruits ==
    { PlainGuard,
      Enlist(Guard, << >>, 120, NoStatuses, None),
      Enlist(Guard, << >>, 120, Immobilized, None),
      Enlist(Guard, Heavy, 100, NoStatuses, None),
      Enlist(Guard, << >>, 100, Chilled, None) }

SelectInputs(max_team_turns) ==
    { [op |-> "select", order |-> o, team_turn |-> tt, cfg |-> EngineConfig(max_team_turns),
       attrs |-> ListingBoardAttrs,
       board |-> RosterOf(( <<"A", 1>> :> r1 ) @@ ( <<"A", 2>> :> r2 ) @@ ( <<"A", 3>> :> r3 )
                            @@ ( <<"B", 1>> :> PlainGuard ))] :
      r1 \in Recruits, r2 \in Recruits, r3 \in Recruits,
      o \in {SlotOrder, BackToFront}, tt \in {1, 5} }

\* the start of team-turn inp.team_turn on the board, once as step_team_turn
\* does it and once through start_team_turn
SelectBoth ==
    /\ inp.op = "select"
    /\ ret = Idle
    /\ \E bs \in {[Battle(board, inp.attrs, inp.order, "A", 0, inp.cfg)
                      EXCEPT !.team_turn = inp.team_turn - 1]} :
       \E e \in {step_team_turn(bs)}, p \in {PlanBegin(bs, TurnSelectionRule)} :
          ret' = [op |-> "select", engine |-> e.bs.actors, plan |-> p.bs.actors,
                  raised |-> e.raised,
                  engine_board |-> e.bs.board, plan_board |-> p.bs.board]
    /\ UNCHANGED <<inp, rng, board, team_turn, starts_team, phase, actors, winner, runs>>

InitSelect ==
    /\ inp \in SelectInputs(MaxTeamTurns)
    /\ ret = Idle
    /\ rng = RngSeed(0)
    /\ board = inp.board
    /\ team_turn = inp.team_turn - 1
    /\ starts_team = "A"
    /\ phase = "idle"
    /\ actors = << >>
    /\ winner = ""
    /\ runs = << >>

NextSelect == SelectBoth

SpecSelect == InitSelect /\ [][NextSelect]_vars

(* A team with fallen units: selection, the actors' loop and the cast check *)

\* the slots of team A that have fallen before the team-turn starts; one unit
\* of the team at least still stands
FallenSets == { D \in SUBSET (1 .. 3) : D # 1 .. 3 }

\* the HP a fallen unit is left with
FallenHp == { 0, -5 }

MageRoster ==
    RosterOf(( <<"A", 1>> :> Enlist(Mage, << >>, 120, NoStatuses, None) )
             @@ ( <<"A", 2>> :> Enlist(Mage, << >>, 120, NoStatuses, None) )
             @@ ( <<"A", 3>> :> Enlist(Mage, << >>, 100, NoStatuses, None) )
             @@ ( <<"B", 1>> :> PlainGuard ))

FallenBoard(D, hp) ==
    [id \in UnitIds |->
        IF MageRoster[id] = None THEN None
        ELSE Some(Caster(IF id[1] = "A" /\ id[2] \in D
                         THEN [MageRoster[id][1] EXCEPT !.hp = FInt(hp)]
                         ELSE MageRoster[id][1],
                         <<"fireball", "mend">>))] @@ EmptyBoard

FallenInputs ==
    { [op |-> "fallen", order |-> o, cfg |-> EngineConfig(1), attrs |-> a,
       board |-> FallenBoard(D, hp)]
      : o \in {SlotOrder, BackToFront}, a \in {BoardAttrs, ListingBoardAttrs},
        D \in FallenSets, hp \in FallenHp }

\* can_cast_active for a unit of team A, fallen or not
CheckCaster ==
    /\ ret.op # "can_cast_active"
    /\ \E slot \in 1 .. 3, sk \in {"mend", "fireball"} :
          \E r \in {can_cast_active(board[<<"A", slot>>][1], sk)} :
              ret' = [op |-> "can_cast_active", skill_key |-> sk, slot |-> slot,
                      alive |-> is_alive(board[<<"A", slot>>][1]),
                      ok |-> r.ok, reason |-> r.reason]
    /\ UNCHANGED <<inp, rng, board, team_turn, starts_team, phase, actors, winner, runs>>

InitFallen ==
    /\ inp \in FallenInputs
    /\ ret = Idle
    /\ rng = RngSeed(0)
    /\ board = inp.board
    /\ team_turn = 0
    /\ starts_team = "A"
    /\ phase = "idle"
    /\ actors = << >>
    /\ winner = ""
    /\ runs = << >>

NextFallen ==
    StepTeamTurn \/ StartTeamTurn \/ CheckCaster

SpecFallen == InitFallen /\ [][NextFallen]_vars

----------------------------------------------------------------------------
(* Claims about the formulas *)

NoModMatches(mods, stat_key) == \A i \in 1 .. Len(mods) : mods[i].stat # stat_key

ClampedBase(b, lo, hi) ==
    LET afterMin == IF lo # None /\ FLt(b, lo[1]) THEN lo[1] ELSE b
    IN  IF hi # None /\ FLt(hi[1], afterMin) THEN hi[1] ELSE afterMin

\* C6: when no modifier of the list has the evaluated stat key, evaluate_stat
\* returns the base value, changed only by the clamp to [clamp_min, clamp_max].
C6_NoMatchReturnsBase ==
    (ret.op = "evaluate_stat" /\ NoModMatches(inp.mods, inp.stat_key))
        => ret.out = ClampedBase(inp.base_value, inp.clamp_min, inp.clamp_max)

C6_Witness ==
    /\ ret.op = "evaluate_stat"
    /\ Len(inp.mods) = 2
    /\ NoModMatches(inp.mods, inp.stat_key)
    /\ inp.base_value = FInt(-5)
    /\ inp.clamp_min = Some(FInt(0))
    /\ ret.out = FInt(0)

TopRange == K_TABLE[Len(K_TABLE)]

\* C7: the K lookup raises for every level <= 0, returns the K of the inclusive
\* range that holds the level, and the top range's K above the highest range.
C7_KLookup ==
    ret.op = "get_k" =>
        /\ inp.level <= 0 => ret.out.err = "ValueError"
        /\ inp.level > 0 =>
              /\ ret.out.err = ""
              /\ \A i \in 1 .. Len(K_TABLE) :
                    (K_TABLE[i].level_min <= inp.level /\ inp.level <= K_TABLE[i].level_max)
                        => ret.out.k = K_TABLE[i].k
              /\ inp.level > TopRange.level_max => ret.out.k = TopRange.k

C7_Witness ==
    /\ ret.op = "get_k"
    /\ inp.level = TopRange.level_max + 1
    /\ ret.out = [err |-> "", k |-> 4000]

\* the float is a whole number
IsWhole(x) == FEq(FInt(FFloor(x)), x)

\* C10: with x = rate/100 and r the value drawn, the extra-hit count is 0 when
\* x <= 0; when x > 0 it is floor(x)+1 if r is below the fractional part of x and
\* floor(x) if not (so one of the two integers in (x-1, x+1], and x itself when
\* x is a whole number); total_hits adds it to the base hit count.
C10_ExtraHits ==
    ret.op = "total_hits" =>
        LET x == FDiv(inp.total_mhr, FInt(100))
            r == RngRoll(ret.rng_before).val
            e == ret.extra
        IN  /\ ret.total = inp.base_hitcount + e
            /\ FLe(x, FInt(0)) => e = 0
            /\ FLt(FInt(0), x) =>
                  /\ FLt(FSub(x, FInt(1)), FInt(e)) /\ FLe(FInt(e), FAdd(x, FInt(1)))
                  /\ FLt(x, FInt(e)) => FLt(r, FSub(x, FInt(e - 1)))
                  /\ FLe(FInt(e), x) => ~FLt(r, FSub(x, FInt(e)))
                  /\ IsWhole(x) => FEq(FInt(e), x)

C10_Witness ==
    /\ ret.op = "total_hits"
    /\ inp.total_mhr = FInt(250)
    /\ ret.extra = 3
    /\ FLt(RngRoll(ret.rng_before).val, FLit(1, 2))

\* draws spread evenly over [0, 1)
Draws == { FLit(k, DrawGrid) : k \in 0 .. (DrawGrid - 1) }

\* the extra-hit counts for the draws 0/DrawGrid .. k/DrawGrid, summed
RECURSIVE SumExtra(_, _)
SumExtra(total_mhr, k) ==
    IF k < 0 THEN 0
    ELSE ExtraOfDraw(total_mhr, FLit(k, DrawGrid)) + SumExtra(total_mhr, k - 1)

\* the mean extra-hit count over the grid of draws
MeanExtra(total_mhr) == FLit(SumExtra(total_mhr, DrawGrid - 1), DrawGrid)

\* C11: with a rate of 250 (x = 2.5) the extra-hit count is 3 for exactly the
\* draws below 0.5 and 2 for the others, for the draw of the generator and for
\* every draw of an even grid on [0, 1), so its mean over evenly spread draws is
\* 2.5; for every positive x the mean over the grid of draws is x, to within
\* the one grid cell that holds the fractional part of x, and x itself when
\* that part lies on the grid (as 0.5 does on a grid of even size).
C11_MeanExtraHits ==
    ret.op = "total_hits" =>
        LET x == FDiv(inp.total_mhr, FInt(100))
            r == RngRoll(ret.rng_before).val
            mean == MeanExtra(inp.total_mhr)
        IN  /\ inp.total_mhr = FInt(250) =>
                  /\ ret.extra = IF FLt(r, FLit(1, 2)) THEN 3 ELSE 2
                  /\ \A d \in Draws :
                        ExtraOfDraw(inp.total_mhr, d) = IF FLt(d, FLit(1, 2)) THEN 3 ELSE 2
            /\ FLt(FInt(0), x) =>
                  /\ FLe(x, mean) /\ FLt(mean, FAdd(x, FLit(1, DrawGrid)))
                  /\ IsWhole(FMul(x, FInt(DrawGrid))) => FEq(mean, x)

\* C11: rate 250 with a draw of the generator not below 0.5 gave 2 extra hits,
\* and the mean over an even grid of even size is 2.5
C11_Witness ==
    /\ ret.op = "total_hits"
    /\ inp.total_mhr = FInt(250)
    /\ ret.extra = 2
    /\ ~FLt(RngRoll(ret.rng_before).val, FLit(1, 2))
    /\ DrawGrid % 2 = 0 => MeanExtra(inp.total_mhr) = FLit(5, 2)

----------------------------------------------------------------------------
(* Claims about the board *)

AliveSet(b, team) == { s \in Slots : AliveAt(b, team, s) }

SameLine(s, t) == (s - 1) % 3 = (t - 1) % 3

\* the living slots with no living slot in front of them in their line
Foremost(b, team) ==
    { s \in AliveSet(b, team) :
        \A t \in AliveSet(b, team) : SameLine(s, t) => s <= t }

SeqSet(q) == { q[i] : i \in 1 .. Len(q) }

\* C5: the exposed frontline slots of a team are exactly the foremost living slot
\* of each line (1,4,7), (2,5,8), (3,6,9): at most one per line, none for a line
\* without a living unit, and with only slots 1, 5, 9 dead they are 4, 2, 3.
C5_Exposure ==
    ret.op = "exposed_frontline_slots" =>
        /\ SeqSet(ret.out) = Foremost(board, inp.team)
        /\ Len(ret.out) = Cardinality(Foremost(board, inp.team))
        /\ \A i, j \in 1 .. Len(ret.out) : i # j => ~SameLine(ret.out[i], ret.out[j])
        /\ (AliveSet(board, inp.team) = {2, 3, 4, 6, 7, 8}) => ret.out = <<4, 2, 3>>

C5_Witness ==
    /\ ret.op = "exposed_frontline_slots"
    /\ AliveSet(board, inp.team) = {2, 3, 4, 6, 7, 8}
    /\ \A s \in {1, 5, 9} : BoardGet(board, inp.team, s) = Some(UnitWithHp(0))
    /\ ret.out = <<4, 2, 3>>

----------------------------------------------------------------------------
(* Claims about recompute_stats *)

\* C8 (as claimed): recompute_stats returns a snapshot, and a second call right
\* after it, with the same base attributes and build, returns the same snapshot
\* and leaves the unit exactly as the first one left it.
C8_RecomputeIdempotent ==
    ret.op = "recompute_stats" =>
        /\ ret.err = ""
        /\ ret.out # None
        /\ TheUnit.stats = ret.out
        /\ recompute_stats(TheUnit).st = ret.out
        /\ recompute_stats(TheUnit).unit = TheUnit

\* C9 (as claimed): the first recompute of a unit sets its HP and MP to the
\* computed maximum, so that the unit is alive and has its snapshot; a recompute
\* of a unit that has its snapshot never changes its current HP or MP.
C9_NeverOverwrites ==
    ret.op = "recompute_stats" =>
        /\ ret.before.stats = None => (TheUnit.stats # None /\ is_alive(TheUnit))
        /\ ret.before.stats # None
              => (TheUnit.hp = ret.before.hp /\ TheUnit.mp = ret.before.mp)

----------------------------------------------------------------------------
(* Claims about statuses *)

StatusMapBefore == EnsureStatusMap(ret.before).m

StatusMapNow == EnsureStatusMap(TheUnit.statuses).m

ImmuneBefore == has_status(ret.before, "immunity")

AppliedToImmune ==
    /\ ret.op = "apply_status"
    /\ ~ret.err
    /\ ImmuneBefore

\* C4 (first half): apply on a unit with an active immunity (remaining > 0) and a
\* non-beneficial key returns false and leaves the status map as it was: no key
\* added, no remaining, stacks, params or source altered.
C4_ImmunityBlocks ==
    (AppliedToImmune /\ ~STATUS[ret.key].is_positive)
        => (ret.out = FALSE /\ StatusMapNow = StatusMapBefore)

C4_BlockedWitness ==
    /\ AppliedToImmune
    /\ ret.key = "stun"
    /\ "stun" \in DOMAIN StatusMapBefore
    /\ ret.params # {}
    /\ ret.out = FALSE

\* C4 (as claimed): with an active immunity a non-beneficial key is blocked
\* without any change, and a beneficial status is still applied: the call
\* returns true and the unit then holds that status.
C4_ImmunityBlocksOnlyHarm ==
    AppliedToImmune =>
        IF STATUS[ret.key].is_positive
        THEN ret.out = TRUE /\ ret.key \in DOMAIN StatusMapNow
        ELSE ret.out = FALSE /\ StatusMapNow = StatusMapBefore

----------------------------------------------------------------------------
(* Claims about a battle *)

Selecting == ret.op \in {"step_team_turn", "start_team_turn"}

\* the team-turn the call was made for, and the team acting in it
TurnNow == ret.team_turn

NowActing == team_for_team_turn(starts_team, TurnNow)

\* the units a selection may take in team-turns 1 to 4: the living units of the
\* acting team; start_team_turn leaves out those whose frame forbids acting
Eligible ==
    { s \in Slots :
        /\ AliveAt(board, NowActing, s)
        /\ ret.op = "start_team_turn"
              => build_start_turn_frame(BoardGet(board, NowActing, s)[1]).frame.can_act }

\* the selection of the step: nobody when the step raised
Selected == IF ret.raised # "" THEN << >> ELSE ret.lines[Len(ret.lines)][4]

\* C1 (as claimed, a team with fewer units granted): in team-turns 1, 2, 3 and 4
\* the selection takes 2, 3, 4 and 5 actors whatever AP they hold, or every
\* eligible unit of the acting team when there are fewer of them.
C1_OpenerCounts ==
    (Selecting /\ TurnNow \in 1 .. 4) =>
        /\ Len(Selected) = Min(TurnNow + 1, Cardinality(Eligible))
        /\ \A i \in 1 .. Len(Selected) : Selected[i][1] \in Eligible
        /\ \A i, j \in 1 .. Len(Selected) : i # j => Selected[i][1] # Selected[j][1]

\* what holds of C1: the selection of start_team_turn
C1_StartTeamTurnCounts ==
    (ret.op = "start_team_turn" /\ TurnNow \in 1 .. 4) =>
        Len(Selected) = Min(TurnNow + 1, Cardinality(Eligible))

CooldownSchedule == <<3, 2, 2, 1, 1, 0>>

\* C2 (as claimed): a cooldown that is 3 during team-turn 1 and is never reset
\* reads 3, 2, 2, 1, 1, 0 during team-turns 1 to 6.
C2_CooldownReads ==
    \A id \in UnitIds :
        (/\ team_turn \in 1 .. 6
         /\ board[id] # None
         /\ board[id][1].skill_cooldowns # None)
            => board[id][1].skill_cooldowns[1]["fireball"] = CooldownSchedule[team_turn]

\* C3 (as claimed): two runs from identical rosters with the same seed, having
\* made the same moves, have the same winner, the same log lines and the same
\* random picks of a retarget, their generators being in the same state.
C3_SameSeedSameRun ==
    /\ runs[1].bs.winner = runs[2].bs.winner
    /\ runs[1].log = runs[2].log
    /\ runs[1].bs.rng = runs[2].bs.rng
    /\ runs[1].picks = runs[2].picks

\* what holds of C3: the log lines and the generators of the two runs agree
C3_SameLogs ==
    /\ runs[1].log = runs[2].log
    /\ runs[1].bs.rng = runs[2].bs.rng

\* the team that strict alternation from the starting team gives team-turn t
Alternating(t) == IF t % 2 = 1 THEN starts_team ELSE OtherTeam(starts_team)

\* C12: every step_team_turn call raises the team-turn counter by exactly 1, the
\* first step of a battle being team-turn 1, and the acting team alternates
\* strictly: the starting team in odd team-turns, the other team in even ones.
C12_CounterAndAlternation ==
    [][ ret'.op = "step_team_turn" =>
            /\ team_turn' = team_turn + 1
            /\ team_turn = 0 => team_turn' = 1
            /\ starts_team' = starts_team
            /\ ret'.lines[2] = <<"TEAM TURN", team_turn', Alternating(team_turn')>> ]_vars

C12_Witness ==
    /\ ret.op = "step_team_turn"
    /\ starts_team = "B"
    /\ team_turn = 4
    /\ ret.lines[2] = <<"TEAM TURN", 4, "A">>

\* a step that ended without raising
C12_ReturnedWitness ==
    /\ ret.op = "step_team_turn"
    /\ ret.raised = ""
    /\ team_turn = 3
    /\ ret.lines[2] = <<"TEAM TURN", 3, starts_team>>


\* what the two-turn tick is to leave of a unit's cooldowns and statuses: every
\* positive counter one lower, a status whose remaining thereby reaches 0 gone
TickedCooldowns(u) ==
    IF u.skill_cooldowns = None THEN None
    ELSE Some([k \in DOMAIN u.skill_cooldowns[1] |-> _dec_nonneg(u.skill_cooldowns[1][k], 1)])

RemainingOf(u, k) ==
    IF u.statuses.form = "insts" THEN u.statuses.m[k].remaining ELSE u.statuses.m[k]

TickedStatuses(u) ==
    IF u.statuses.form = "list" THEN u.statuses
    ELSE LET kept == { k \in DOMAIN u.statuses.m :
                          ~(RemainingOf(u, k) > 0 /\ _dec_nonneg(RemainingOf(u, k), 1) = 0) }
         IN  [form |-> u.statuses.form,
              m |-> [k \in kept |->
                        IF u.statuses.form = "insts"
                        THEN [u.statuses.m[k] EXCEPT !.remaining = _dec_nonneg(@, 1)]
                        ELSE _dec_nonneg(u.statuses.m[k], 1)]]

\* C13 (as claimed): a step whose team-turn counter is even ticks every unit of
\* both teams, lowering each positive skill cooldown and status remaining by 1
\* and removing the statuses that reach 0; a step whose counter is odd changes
\* no cooldown and no status duration.
C13_TickInEvenTurns ==
    [][ ret'.op = "step_team_turn" =>
            \A id \in UnitIds :
                board[id] # None =>
                    /\ board'[id] # None
                    /\ board'[id][1].skill_cooldowns =
                          IF team_turn' % 2 = 0 THEN TickedCooldowns(board[id][1])
                          ELSE board[id][1].skill_cooldowns
                    /\ board'[id][1].statuses =
                          IF team_turn' % 2 = 0 THEN TickedStatuses(board[id][1])
                          ELSE board[id][1].statuses ]_vars


\* the normal maximum and the AP threshold the selection was configured with:
\* the engine's EngineConfig, the rule start_team_turn was handed
NormalCap ==
    IF ret.op = "step_team_turn" THEN inp.cfg.normal_max_actors
    ELSE ret.rule.normal_max

NormalThreshold ==
    IF ret.op = "step_team_turn" THEN inp.cfg.ap_threshold
    ELSE ret.rule.normal_ap_threshold

\* the start-turn frame of the unit lets it act
CanActNow(team, s) == build_start_turn_frame(BoardGet(board, team, s)[1]).frame.can_act

\* the AP a unit of the acting team holds
ApOf(s) == BoardGet(board, NowActing, s)[1].ap

\* C14: from team-turn 5 onward every selected actor holds, after the AP gain of
\* the turn, at least the configured threshold, and there are never more actors
\* than the configured normal maximum.
C14_NormalSelection ==
    (Selecting /\ TurnNow >= 5) =>
        /\ Len(Selected) <= NormalCap
        /\ \A i \in 1 .. Len(Selected) :
              /\ Selected[i][2] = ApOf(Selected[i][1])
              /\ Selected[i][2] >= NormalThreshold

\* the living units of the acting team that may act and hold the threshold
AtThreshold ==
    { s \in Slots :
        /\ AliveAt(board, NowActing, s)
        /\ CanActNow(NowActing, s)
        /\ ApOf(s) >= NormalThreshold }

\* team-turn 5 under a rule whose normal maximum is 2: four units of the team
\* may act and hold the threshold, the two of them with the most AP are
\* selected, one of these just at the threshold, and a living unit that may
\* act, below the threshold, is left out as well
C14_Witness ==
    /\ ret.op = "start_team_turn"
    /\ TurnNow = 5
    /\ NormalCap = 2
    /\ Cardinality(AtThreshold) = 4
    /\ Len(Selected) = NormalCap
    /\ \E i \in 1 .. Len(Selected) : Selected[i][2] = NormalThreshold
    /\ \E s \in Slots :
          /\ AliveAt(board, NowActing, s)
          /\ CanActNow(NowActing, s)
          /\ ApOf(s) < NormalThreshold
          /\ \A i \in 1 .. Len(Selected) : Selected[i][1] # s

\* team-turn 5 under the rule with threshold 200 and normal maximum 3: the one
\* unit that holds 200 AP is the only actor, the units at 100 AP are left out
C14_OtherThresholdWitness ==
    /\ ret.op = "start_team_turn"
    /\ TurnNow = 5
    /\ NormalThreshold = 200
    /\ Len(Selected) = 1
    /\ \E s \in Slots :
          /\ AliveAt(board, NowActing, s)
          /\ CanActNow(NowActing, s)
          /\ ApOf(s) = 100

\* team-turn 5 under the engine's configuration with normal maximum 2: no
\* actor is selected, the step having raised in its AP gain phase
C14_EngineWitness ==
    /\ ret.op = "step_team_turn"
    /\ TurnNow = 5
    /\ NormalCap = 2
    /\ ret.raised # ""
    /\ Selected = << >>


\* the units the selection of this team-turn may take: the eligible units, from
\* team-turn 5 onward those of them at or above the AP threshold
EligibleNow == { s \in Eligible : TurnNow \in 1 .. 4 \/ ApOf(s) >= NormalThreshold }

\* slot s ranks before slot t: more AP, or as much AP and the lower slot number
RanksBefore(s, t) == ApOf(s) > ApOf(t) \/ (ApOf(s) = ApOf(t) /\ s < t)

SelectedSlots == [i \in 1 .. Len(Selected) |-> Selected[i][1]]

\* the number of actor places of the team-turn
ActorPlaces == IF TurnNow \in 1 .. 4 THEN TurnNow + 1 ELSE NormalCap

Ranked ==
    /\ actors = SelectedSlots
    /\ Len(Selected) = Min(ActorPlaces, Cardinality(EligibleNow))
    /\ \A i, j \in 1 .. Len(Selected) : i < j => RanksBefore(Selected[i][1], Selected[j][1])
    /\ \A s \in EligibleNow :
          (\A i \in 1 .. Len(Selected) : Selected[i][1] # s)
              => \A i \in 1 .. Len(Selected) : RanksBefore(Selected[i][1], s)

\* C15 (as claimed): the actors of a team-turn are the top-N eligible units by AP
\* descending, ties by ascending slot number, and act in that order: no eligible
\* unit left out has more AP than an actor, or as much AP and a lower slot.
C15_RankedActors == Selecting => Ranked

\* the part of C15 that holds: the selection of start_team_turn is ranked so
C15_StartTeamTurnRanked == ret.op = "start_team_turn" => Ranked


\* the living units of the acting team that may act and pass the AP rule of the turn
ActCapable ==
    { s \in Slots :
        /\ AliveAt(board, NowActing, s)
        /\ CanActNow(NowActing, s)
        /\ TurnNow \in 1 .. 4 \/ ApOf(s) >= NormalThreshold }

NoActorCannotAct ==
    Selecting =>
        /\ \A i \in 1 .. Len(Selected) : CanActNow(NowActing, Selected[i][1])
        /\ Len(Selected) = Min(ActorPlaces, Cardinality(ActCapable))

\* C16 (as claimed): a unit whose start-turn frame has can_act false (stunned or
\* immobilized) is never among the actors of the team-turn and performs no
\* action in it, and takes none of the actor places: the places are filled from
\* the act-capable units.
C16_NoActorCannotAct == NoActorCannotAct

\* the part of C16 that holds: the selection of start_team_turn
C16_StartTeamTurnSkips ==
    ret.op = "start_team_turn" =>
        /\ \A i \in 1 .. Len(Selected) : CanActNow(NowActing, Selected[i][1])
        /\ Len(Selected) = Min(ActorPlaces, Cardinality(ActCapable))


\* the team has no living unit on the board
NoneLiving(team) == \A s \in Slots : ~AliveAt(board, team, s)

\* C17 (as claimed): the victory check tells whether the team it is asked about
\* has no living unit, and a winner A or B is only returned when the other team
\* has none.
C17_VictoryCheck ==
    /\ ret.op = "_team_defeated" => (ret.err = "" /\ ret.out = NoneLiving(ret.team))
    /\ winner \in {"A", "B"} => NoneLiving(OtherTeam(winner))

\* what holds of C17: on a board that lists its units by team the check tells
\* whether the team has no living unit
C17_ListingBoard ==
    (ret.op = "_team_defeated" /\ "team_units" \in inp.attrs)
        => (ret.err = "" /\ ret.out = NoneLiving(ret.team))


\* the steps the loop of run has made
StepsMade == runs.made

\* C18 (as claimed): run ends after at most max_team_turns steps: it returns (the
\* winner of the first step that reports one, or DRAW), DRAW is returned only
\* after max_team_turns steps and none of them reporting a winner, and nothing
\* follows the return.
C18_RunTerminates ==
    /\ <>(phase = "over")
    /\ [](/\ StepsMade <= inp.cfg.max_team_turns
          /\ phase = "over" <=> winner \in {"A", "B", "DRAW"}
          /\ winner = "DRAW" => (StepsMade = inp.cfg.max_team_turns /\ ret.op = "run")
          /\ (phase = "idle" /\ StepsMade = inp.cfg.max_team_turns) => winner = "")
    /\ [][/\ winner = ""
          /\ winner' = "DRAW" => (phase = "idle" /\ StepsMade = inp.cfg.max_team_turns)]_vars

\* what holds of C18: the loop never makes more than max_team_turns steps, and
\* DRAW is returned only after max_team_turns steps, counted from the entry of
\* run and not by the counter of the state
C18_AtMostMaxSteps ==
    /\ StepsMade <= inp.cfg.max_team_turns
    /\ phase = "over" <=> winner \in {"A", "B", "DRAW"}
    /\ winner = "DRAW" => (StepsMade = inp.cfg.max_team_turns /\ ret.op = "run")

\* run entered at team-turn MaxEntryTurn returns DRAW with the counter past
\* max_team_turns
C18_DrawPastCounterWitness ==
    /\ winner = "DRAW"
    /\ MaxEntryTurn > 0
    /\ team_turn = inp.cfg.max_team_turns + MaxEntryTurn

\* the modifiers of a unit: the lines its gear brings (no line of a weapon or an
\* offhand is on the AP gain)
ModifiersOf(u) == IF u.build.gear = None THEN << >> ELSE u.build.gear[1]

\* the AP the unit is to gain at the start of a team-turn of its team: nothing
\* when its start-turn frame blocks the gain, else the AP-gain stat evaluated
\* from base 100 with its modifiers and the base delta of its statuses, rounded
ExpectedGain(u) ==
    Only({ IF f.block_ap_gain THEN 0
           ELSE FRound(compute_ap_gain(
                    Append(ModifiersOf(u), Mod("ap_gain", "base", f.ap_gain_base_delta)),
                    FInt(100)))
           : f \in {build_start_turn_frame(u).frame} })

\* the step from board to board' is an AP-gain phase of the team
GainPhase(team) ==
    \A id \in UnitIds :
        board[id] # None =>
            /\ board'[id] # None
            /\ IF id[1] = team /\ AliveAt(board, team, id[2])
               THEN /\ ExpectedGain(board[id][1]) >= 0
                    /\ board'[id][1].ap = board[id][1].ap + ExpectedGain(board[id][1])
               ELSE board'[id][1].ap = board[id][1].ap

\* C19 (as claimed): when a team-turn begins, each living unit of the acting
\* team gains round(evaluate(AP-gain, base 100, modifiers plus status base
\* delta)), never less than 0, or 0 when its frame blocks the gain; the AP of
\* the other team and of the dead is unchanged.
C19_ApGainPhase ==
    [][ret'.op \in {"step_team_turn", "start_team_turn"}
          => GainPhase(team_for_team_turn(starts_team, ret'.team_turn))]_vars

\* what holds of C19: a step changes the AP of no unit of the other team and of
\* no dead unit, and no AP goes down
C19_OthersUnchanged ==
    [][ret'.op \in {"step_team_turn", "start_team_turn"}
          => \A id \in UnitIds :
                board[id] # None =>
                    /\ board'[id] # None
                    /\ board'[id][1].ap >= board[id][1].ap
                    /\ (id[1] # team_for_team_turn(starts_team, ret'.team_turn)
                          \/ ~AliveAt(board, id[1], id[2]))
                          => board'[id][1].ap = board[id][1].ap]_vars


\* largest max_stacks of a stackable status kind
MaxStacks == 3

\* status kinds that stack, up to each maximum
StackableDefs ==
    { [StatusDef(FALSE, 1) EXCEPT !.stackable = TRUE, !.max_stacks = m] : m \in 1 .. MaxStacks }

StacksInRange(inst, sd) ==
    /\ inst.stacks >= 1
    /\ inst.stacks <= sd.max_stacks
    /\ ~sd.stackable => inst.stacks = 1

\* the stack count apply_status gives an instance it creates or changes
StacksClamped ==
    \A sd \in StackableDefs \cup {StatusDef(FALSE, 1)}, add \in (-1) .. (MaxStacks + 1) :
        /\ StacksInRange(Created(sd, 1, add, {}, None), sd)
        /\ \A had \in 1 .. sd.max_stacks :
              StacksInRange(Reapplied(StatusInstance(1, had, {}, None), sd, 1, add, {}, None), sd)

\* the status map of the unit, as the status functions read it
StatusMap == EnsureStatusMap(TheUnit.statuses).m

\* C20: whatever statuses were applied and ticked, every status of the unit has
\* remaining >= 0 and a stack count from 1 to the max_stacks of its kind, which
\* is 1 for a kind that does not stack.
C20_StatusesInRange ==
    /\ \A k \in DOMAIN StatusMap :
          /\ StatusMap[k].remaining >= 0
          /\ StacksInRange(StatusMap[k], STATUS[k])
    /\ StacksClamped

\* a tick has lowered a duration kept as an integer, and has dropped no status
C20_Witness ==
    /\ ret.op = "two_turn_tick"
    /\ ~ret.err
    /\ ret.before.form = "ints"
    /\ \E k \in DOMAIN StatusMap :
          /\ ret.before.m[k] = MaxRemaining
          /\ StatusMap[k].remaining = MaxRemaining - 1

\* a status already on the unit has been applied again and lasts longer for it
C20_ReappliedWitness ==
    /\ ret.op = "apply_status"
    /\ ret.out
    /\ ret.key \in DOMAIN StatusMap
    /\ ret.key \in DOMAIN EnsureStatusMap(ret.before).m
    /\ StatusMap[ret.key].remaining > EnsureStatusMap(ret.before).m[ret.key].remaining

\* a tick of statuses that apply_status left on the unit raises
C20_TickRaises ==
    /\ ret.op = "two_turn_tick"
    /\ ret.err
    /\ ret.before.form = "insts"


\* the duration an apply_status call works with: the one given, or the default
\* of the kind, and never below 0
AskedDuration ==
    IF ret.duration # None THEN IF ret.duration[1] < 0 THEN 0 ELSE ret.duration[1]
    ELSE STATUS[ret.key].default_duration

\* apply_status was called for a status the unit already carried
Reapply ==
    /\ ret.op = "apply_status"
    /\ ~ret.err
    /\ ret.key \in DOMAIN StatusMapBefore

\* status kinds that do not refresh on reapply, beside one that does
RefreshDefs ==
    { [StatusDef(FALSE, 1) EXCEPT !.refresh_on_reapply = f] : f \in BOOLEAN }

\* what a reapply makes of the remaining duration, for both sorts of kind
RemainingAfterReapply ==
    \A sd \in RefreshDefs, had \in 0 .. MaxRemaining, dur \in 0 .. MaxDuration :
        Reapplied(StatusInstance(had, 1, {}, None), sd, dur, 1, {}, None).remaining
            = IF sd.refresh_on_reapply THEN (IF had >= dur THEN had ELSE dur) ELSE had

\* C21: a reapply of a status the unit carries sets remaining to the larger of
\* what remained and the new duration for a kind that refreshes, and leaves it
\* for a kind that does not; remaining never becomes the sum of the two and
\* never goes down through a reapply.
C21_ReapplyTakesMax ==
    /\ Reapply =>
          LET had == StatusMapBefore[ret.key].remaining
              now == StatusMapNow[ret.key].remaining
          IN  /\ ret.key \in DOMAIN StatusMapNow
              /\ ret.out =>
                    now = IF STATUS[ret.key].refresh_on_reapply
                          THEN (IF had >= AskedDuration THEN had ELSE AskedDuration)
                          ELSE had
              /\ now >= had
              /\ (had > 0 /\ AskedDuration > 0) => now # had + AskedDuration
    /\ RemainingAfterReapply

\* a status with 1 remaining was applied again for 2 and now has 2 remaining
C21_Witness ==
    /\ Reapply
    /\ ret.out
    /\ StatusMapBefore[ret.key].remaining = 1
    /\ AskedDuration = 2
    /\ StatusMapNow[ret.key].remaining = 2

\* a status with 2 remaining was applied again for 1 and still has 2 remaining
C21_LongerKept ==
    /\ Reapply
    /\ ret.out
    /\ StatusMapBefore[ret.key].remaining = 2
    /\ AskedDuration = 1
    /\ StatusMapNow[ret.key].remaining = 2


\* the statuses of the unit that are active: something remains of them
ActiveKeys(st) == { k \in DOMAIN EnsureStatusMap(st).m : EnsureStatusMap(st).m[k].remaining > 0 }

FrameBuilt == ret.op = "build_start_turn_frame" /\ ret.err = ""

\* C22: in every frame build_start_turn_frame returns, can_act false comes with
\* can_basic_attack false and can_use_active_skills false, whatever statuses
\* the unit carries; with no active status the frame is the permissive one: all
\* permissions true, nothing blocked or ignored, multipliers 1, deltas 0, no
\* events.
C22_FramePermissions ==
    FrameBuilt =>
        /\ ~ret.frame.can_act =>
              (~ret.frame.can_basic_attack /\ ~ret.frame.can_use_active_skills)
        /\ ActiveKeys(inp.statuses) = {} =>
              /\ ret.frame.can_act
              /\ ret.frame.can_use_active_skills
              /\ ret.frame.can_basic_attack
              /\ ~ret.frame.ignore_passives
              /\ ~ret.frame.block_ap_gain
              /\ ret.frame.attack_damage_mult = FInt(1)
              /\ ret.frame.skill_damage_mult = FInt(1)
              /\ ret.frame.damage_taken_mult = FInt(1)
              /\ ret.frame.ap_gain_base_delta = 0
              /\ ret.frame.mhr_base_delta = 0
              /\ ret.frame.accuracy_inc_pct_delta = 0
              /\ ret.frame.armour_base_delta = 0
              /\ ret.frame.mr_base_delta = 0
              /\ ret.frame.events = << >>

\* an immobilized unit that is neither silenced nor disarmed: it cannot act, nor
\* attack, nor use a skill
C22_Witness ==
    /\ FrameBuilt
    /\ ActiveKeys(inp.statuses) = {"immobilized", "panic"}
    /\ ~ret.frame.can_act
    /\ ~ret.frame.can_basic_attack
    /\ ~ret.frame.can_use_active_skills
    /\ ret.frame.skill_damage_mult = FLit(4, 5)

\* a unit whose statuses have all expired gets the permissive frame
C22_ExpiredWitness ==
    /\ FrameBuilt
    /\ DOMAIN inp.statuses.m = {"stun", "chill", "bleeding"}
    /\ ActiveKeys(inp.statuses) = {}
    /\ ret.frame = StatusFrame
    /\ ret.statuses.m = << >>


\* a target came back from a call for a unit standing in inp.actor_slot
SelfPicked == ret.op = "pick_self"

\* C23: with side self or location self, pick_primary_target gives the acting
\* unit's own team and own slot, wherever in 1..9 the actor stands.
C23_SelfTarget ==
    SelfPicked =>
        /\ ret.team = Some(inp.attacker_team)
        /\ ret.slot = Some(inp.actor_slot)
        /\ ret.targets = << <<inp.attacker_team, inp.actor_slot>> >>

\* the team is always the actor's own, and the slot is the actor's when the
\* actor stands in slot 1
C23_SelfTeam ==
    SelfPicked =>
        /\ ret.team = Some(inp.attacker_team)
        /\ ret.reason = "self"
        /\ inp.actor_slot = 1 => ret.slot = Some(1)
        /\ ret.slot = Some(IF BoardGet(board, inp.attacker_team, 1) # None THEN 1 ELSE 0)

\* an actor in slot 5 with no unit in slot 1 of its team is given slot 0
C23_SlotZeroWitness ==
    /\ SelfPicked
    /\ inp.actor_slot = 5
    /\ BoardGet(board, inp.attacker_team, 1) = None
    /\ ret.slot = Some(0)


\* a single-target call aimed at the enemy or at an ally
Picked == ret.op = "pick_primary_target"

\* the slot is legal for the team under the location policy: a living unit
\* stands there, and under the frontline policy none lives in front of it
LegalSlot(team, s, location) ==
    /\ s \in AliveSet(board, team)
    /\ location = "frontline" => s \in Foremost(board, team)

LegalSlots(team, location) == { s \in Slots : LegalSlot(team, s, location) }

\* C24: a (team, slot) that pick_primary_target returns for a single-target
\* enemy or ally spec is legal when the call is made: the team is the one the
\* spec resolves to, the slot is in 1..9 and holds a living unit of that team,
\* and under the frontline policy it is an exposed slot; on every path.
C24_ReturnedTargetLegal ==
    (Picked /\ ret.slot # None) =>
        /\ ret.team = Some(AimedTeam(inp))
        /\ ret.slot[1] \in Slots
        /\ LegalSlot(AimedTeam(inp), ret.slot[1], inp.spec.location)
        /\ ret.reason \in {"preferred_ok", "retarget_same_line_exposed", "retarget_random",
                           "retarget_first", "random", "first"}
        /\ ret.reason = "preferred_ok" => ret.slot = inp.preferred_slot
        /\ ret.targets = << <<AimedTeam(inp), ret.slot[1]>> >>

\* slot 2 was asked for under the frontline policy while dead, and slot 8, the
\* living slot of its line, came back
C24_Witness ==
    /\ Picked
    /\ inp.spec.location = "frontline"
    /\ inp.preferred_slot = Some(2)
    /\ AliveSet(board, AimedTeam(inp)) = {1, 8, 9}
    /\ ret.reason = "retarget_same_line_exposed"
    /\ ret.slot = Some(8)

\* the other paths: the asked slot accepted, a random pick, the first candidate
C24_PathsWitness ==
    /\ Picked
    /\ AliveSet(board, AimedTeam(inp)) = {4, 6}
    /\ \/ ret.reason = "preferred_ok" /\ ret.slot = Some(6)
       \/ ret.reason = "retarget_random" /\ ret.slot = Some(6)
       \/ ret.reason = "retarget_first" /\ ret.slot = Some(4)


\* the call returned no slot
NoTarget == Picked /\ ret.slot = None

\* a slot was asked for that is not legal
AskedIllegal ==
    /\ inp.preferred_slot # None
    /\ ~LegalSlot(AimedTeam(inp), inp.preferred_slot[1], inp.spec.location)

\* the generator handed to the call is as it was: nothing was drawn
NothingDrawn ==
    /\ ret.st = inp.rng
    /\ ret.reason \notin {"random", "retarget_random"}

\* C25 as stated: no slot is returned only when the resolved team has no legal
\* candidate under the location policy, and a slot is returned whenever it has
\* one, also when the slot asked for is dead or illegal; a failure is a
\* returned value with a reason, and draws nothing.
C25_FailsOnlyWithoutCandidate ==
    Picked =>
        /\ (ret.slot = None) <=> (LegalSlots(AimedTeam(inp), inp.spec.location) = {})
        /\ NoTarget => (ret.reason # "" /\ NothingDrawn /\ ret.targets = << >>)

\* C25 as amended: no slot is returned when the resolved team has no legal
\* candidate, or when the slot asked for is not legal and the spec does not
\* allow retargeting, and in no other case; the failure is a returned value
\* with the reason no_candidates or preferred_invalid, and draws nothing.
C25_FailsWithoutCandidateOrRetarget ==
    Picked =>
        /\ (ret.slot = None) <=>
              \/ LegalSlots(AimedTeam(inp), inp.spec.location) = {}
              \/ AskedIllegal /\ ~inp.spec.allow_retarget
        /\ NoTarget =>
              /\ ret.team = Some(AimedTeam(inp))
              /\ ret.reason = IF LegalSlots(AimedTeam(inp), inp.spec.location) = {}
                              THEN "no_candidates" ELSE "preferred_invalid"
              /\ NothingDrawn
              /\ ret.targets = << >>

\* a call with a generator on a team without a living unit: no slot, reason
\* no_candidates
C25_Witness ==
    /\ NoTarget
    /\ inp.rng # None
    /\ AliveSet(board, AimedTeam(inp)) = {}
    /\ ret.reason = "no_candidates"

\* the slot asked for is dead, retargeting is allowed, a living slot came back
C25_RetargetWitness ==
    /\ Picked
    /\ AskedIllegal
    /\ inp.spec.allow_retarget
    /\ ret.slot # None
    /\ ret.slot # inp.preferred_slot

\* the slot asked for is dead, retargeting is not allowed: no slot although
\* the team has legal candidates
C25_NoRetargetWitness ==
    /\ NoTarget
    /\ AskedIllegal
    /\ LegalSlots(AimedTeam(inp), inp.spec.location) # {}
    /\ ret.reason = "preferred_invalid"


----------------------------------------------------------------------------
(* Claims about the shape of an area hit *)

Expanded == ret.op \in {"resolve_weapon_aoe", "_resolve_aoe_slots"}

Primary == IF inp.op = "resolve_weapon_aoe" THEN inp.target_slot ELSE inp.primary_slot

\* the slots of the returned list, in order
HitSlots ==
    IF ret.op = "resolve_weapon_aoe"
    THEN [i \in 1 .. Len(ret.out) |-> ret.out[i].slot]
    ELSE ret.out

WellFormed ==
    /\ Len(HitSlots) >= 1
    /\ HitSlots[1] = Primary
    /\ ret.op = "resolve_weapon_aoe" => ret.out[1].ratio = FInt(1)
    /\ \A i, j \in 1 .. Len(HitSlots) : HitSlots[i] = HitSlots[j] => i = j
    /\ \A i \in 1 .. Len(HitSlots) : HitSlots[i] \in 1 .. 9

\* C26 : for every primary slot 1..9 and every shape, the expansion is a list
\* that starts with the primary slot at ratio 1, holds no slot twice and holds
\* only slots of 1..9
C26_ExpansionWellFormed == Expanded => ret.raised = "" /\ WellFormed

\* C26, the part that holds: every list an expansion returns is of that form
C26_ReturnedWellFormed == Expanded /\ ret.raised = "" => WellFormed

\* C26, the part that fails: the row-adjacent shapes, and only they, return no
\* list, from every primary slot
C26_RowAdjacentRaises ==
    Expanded =>
        (ret.raised # "" <=>
            IF inp.op = "resolve_weapon_aoe"
            THEN \/ inp.aoe \in {Str("adjacent_1"), Str("adjacent"), Str("row_adjacent"),
                                 Str("Adjacent_1")}
                 \/ inp.aoe = Member("ADJACENT_1")
            ELSE inp.aoe \in {"adjacent_1", "Adjacent_1"})

C26_RaisedWitness ==
    /\ ret.op = "resolve_weapon_aoe"
    /\ inp.target_slot = 5
    /\ inp.aoe = Str("adjacent_1")
    /\ ret.raised = "AttributeError"

C26_CrossWitness ==
    /\ ret.op = "resolve_weapon_aoe"
    /\ inp.target_slot = 5
    /\ inp.aoe = Str("cross")
    /\ ret.raised = ""
    /\ Len(ret.out) = 5

\* the slots and ratios a weapon's expansion adds to the primary, as a set
Added == { ret.out[i] : i \in 2 .. Len(ret.out) }

\* the slot dr rows below and dc columns right of a slot, when the grid has it
Shifted(slot, dr, dc) ==
    { s \in 1 .. 9 : /\ (s - 1) \div 3 = ((slot - 1) \div 3) + dr
                     /\ (s - 1) % 3 = ((slot - 1) % 3) + dc }

RowNeighbours(slot) == Shifted(slot, 0, -1) \cup Shifted(slot, 0, 1)

CrossNeighbours(slot) ==
    Shifted(slot, -1, 0) \cup Shifted(slot, 1, 0) \cup RowNeighbours(slot)

At(slots, ratio) == { AoETarget(s, ratio) : s \in slots }

ShapeOf(aoe) ==
    LET k == IF aoe.kind = "enum" THEN aoe.name ELSE aoe.s
    IN  CASE k \in {"single", "none", "SINGLE", "Single", "NONE"} -> "single"
          [] k \in {"adjacent_1", "adjacent", "row_adjacent", "ADJACENT_1",
                    "Adjacent_1"} -> "row"
          [] k \in {"cross", "cross_1", "plus", "CROSS", "Cross", "PLUS", " cross",
                    "cross "} -> "cross"
          [] k \in {"line", "column", "pierce", "line_2", "behind_2", "pierce_2",
                    "LINE", "Pierce", "LINE_2", "COLUMN"} -> "line"
          [] OTHER -> "other"

ExpectedAdded(shape, slot, near, far) ==
    CASE shape = "single" -> {}
      [] shape = "row" -> At(RowNeighbours(slot), far)
      [] shape = "cross" -> At(CrossNeighbours(slot), far)
      [] shape = "line" -> At(Shifted(slot, 1, 0), near) \cup At(Shifted(slot, 2, 0), far)

WeaponHit == ret.op = "resolve_weapon_aoe" /\ ShapeOf(inp.aoe) # "other"

\* C27 : single yields the primary only; row-adjacent adds exactly the left and
\* right neighbours that exist in the primary's row; cross adds exactly the up,
\* down, left and right neighbours that exist; line adds the slot behind at the
\* near ratio and the slot two behind at the far ratio, each when it exists
C27_ShapeGeometry ==
    WeaponHit =>
        /\ ret.raised = ""
        /\ Added = ExpectedAdded(ShapeOf(inp.aoe), inp.target_slot,
                                 inp.aoe_ratio_2, inp.aoe_ratio_1)

\* C27, the part that holds: single, cross and line have the geometry claimed
C27_ReturnedGeometry ==
    WeaponHit /\ ret.raised = "" =>
        Added = ExpectedAdded(ShapeOf(inp.aoe), inp.target_slot,
                              inp.aoe_ratio_2, inp.aoe_ratio_1)

\* C27, the neighbour functions of core/grid.py and model/board.py taken alone
\* return the neighbours claimed
C27_NeighbourFunctions ==
    ret.op = "neighbours" =>
        LET got == { ret.out[i] : i \in 1 .. Len(ret.out) }
        IN  CASE inp.fn \in {"adjacent_horizontal", "adjacent_in_row"} ->
                    got = RowNeighbours(inp.slot)
              [] inp.fn \in {"cross_neighbors", "board.cross_neighbors"} ->
                    got = CrossNeighbours(inp.slot)
              [] inp.fn \in {"behind_in_line", "board.behind_in_line"} ->
                    got = Shifted(inp.slot, inp.steps, 0)

\* C27, the resolver of skills: the same slots, without ratios
C27_SkillGeometry ==
    ret.op = "_resolve_aoe_slots" /\ ret.raised = "" =>
        { ret.out[i] : i \in 2 .. Len(ret.out) } =
            CASE inp.aoe \in {"single", "", "line", " "} -> {}
              [] inp.aoe \in {"cross", " cross", "Cross "} -> CrossNeighbours(inp.primary_slot)
              [] inp.aoe \in {"line_2", "Line_2", "LINE_2"} ->
                    Shifted(inp.primary_slot, 1, 0) \cup Shifted(inp.primary_slot, 2, 0)

C27_LineWitness ==
    /\ ret.op = "resolve_weapon_aoe"
    /\ inp.target_slot = 1
    /\ inp.aoe = Member("LINE")
    /\ ret.out = << AoETarget(1, FInt(1)), AoETarget(4, inp.aoe_ratio_2),
                    AoETarget(7, inp.aoe_ratio_1) >>
    /\ inp.aoe_ratio_2 = FLit(3, 4)

C27_RowRaisedWitness ==
    /\ ret.op = "resolve_weapon_aoe"
    /\ inp.target_slot = 6
    /\ ShapeOf(inp.aoe) = "row"
    /\ ret.raised = "AttributeError"


----------------------------------------------------------------------------
(* Claims about casting *)

CastAttempt == ret.op = "build_active_cast_plan"

CostsOf(sk) == ActiveSkills[sk]

\* the cooldowns the casting rules keep for a unit; none is the same as no entry
CdMapOf(u) == IF u.cooldowns = None THEN << >> ELSE u.cooldowns[1]

CdOf(u, sk) == IF sk \in DOMAIN CdMapOf(u) THEN CdMapOf(u)[sk] ELSE 0

Short(u, sk) ==
    \/ u.ap < CostsOf(sk).ap_cost
    \/ FLt(u.mp, FInt(CostsOf(sk).mp_cost))
    \/ CdOf(u, sk) > 0

Refused == ret.raised = "SkillCastError" /\ ret.reason # "" /\ ret.reason # "ok"

NothingChanged ==
    /\ TheCaster.ap = ret.before.ap
    /\ TheCaster.mp = ret.before.mp
    /\ CdMapOf(TheCaster) = CdMapOf(ret.before)

OtherCooldownsKept ==
    \A k \in DOMAIN CdMapOf(ret.before) \ {ret.skill_key} :
        CdOf(TheCaster, k) = CdOf(ret.before, k)

\* C28 : a cast with AP or MP below the cost, or with the skill on cooldown, is
\* refused with a reason and leaves AP, MP and cooldowns as they were; any other
\* cast lowers AP and MP by exactly the costs and sets the skill's cooldown to
\* its base value
C28_CastAccounting ==
    CastAttempt =>
        IF Short(ret.before, ret.skill_key)
        THEN Refused /\ NothingChanged
        ELSE /\ ret.raised = ""
             /\ TheCaster.ap = ret.before.ap - CostsOf(ret.skill_key).ap_cost
             /\ TheCaster.mp = FSub(ret.before.mp, FInt(CostsOf(ret.skill_key).mp_cost))
             /\ CdOf(TheCaster, ret.skill_key) = CostsOf(ret.skill_key).cooldown
             /\ OtherCooldownsKept

\* C28, the part that holds: a refused cast changes nothing, and a cast is
\* refused exactly when AP, MP or the cooldown forbids it
C28_RefusedChangesNothing ==
    CastAttempt =>
        /\ Short(ret.before, ret.skill_key) <=> Refused
        /\ Refused => NothingChanged /\ ret.plan = None

\* C28, what a successful cast does: AP falls by the cost, the cooldown is set
\* to the base value, and MP becomes its whole part less the cost
C28_SuccessfulCast ==
    CastAttempt /\ ret.raised = "" =>
        /\ TheCaster.ap = ret.before.ap - CostsOf(ret.skill_key).ap_cost
        /\ TheCaster.mp = FInt(FFloor(ret.before.mp) - CostsOf(ret.skill_key).mp_cost)
        /\ CdOf(TheCaster, ret.skill_key) = CostsOf(ret.skill_key).cooldown
        /\ OtherCooldownsKept
        /\ ret.plan[1].cooldown_set_to = CostsOf(ret.skill_key).cooldown

C28_RefusedWitness ==
    /\ CastAttempt
    /\ ret.reason = "not enough MP"
    /\ TheCaster.ap >= 100

C28_CooldownWitness ==
    /\ CastAttempt
    /\ ret.reason = "cooldown remaining"
    /\ TheCaster.ap >= 100

C28_FractionLostWitness ==
    /\ CastAttempt
    /\ ret.raised = ""
    /\ ret.skill_key = "fireball"
    /\ ret.before.mp = FLit(303, 2)
    /\ TheCaster.mp = FInt(101)

\* C29 : the AP of every unit is at least 0 in every state of a battle, whatever
\* the team-turns that add AP and the casts that spend it
C29_ApNeverNegative ==
    \A id \in DOMAIN board : board[id] # None => board[id][1].ap >= 0

\* a cast that leaves the caster with no AP, after gains that were clamped at 0
C29_Witness ==
    /\ CastAttempt
    /\ ret.raised = ""
    /\ team_turn >= 2
    /\ inp.caster.stats[1].ap_gain = FInt(0)
    /\ TheCaster.ap < 100

C29_SpentAllWitness ==
    /\ CastAttempt
    /\ ret.raised = ""
    /\ ret.before.ap = CostsOf(ret.skill_key).ap_cost
    /\ TheCaster.ap = 0

Owned == { TheCaster.skills[i] : i \in 1 .. Len(TheCaster.skills) }

LockedAtBase ==
    \A sk \in Owned :
        /\ TheCaster.skill_cooldowns # None
        /\ sk \in DOMAIN TheCaster.skill_cooldowns[1]
        /\ TheCaster.skill_cooldowns[1][sk] = CostsOf(sk).cooldown

\* C30 : after the lock at the start of a battle every skill a unit owns is on
\* cooldown at its base value, and a skill of base cooldown c is not castable
\* before team-turn 2c
C30_NoCastBeforeCooldownRuns ==
    /\ ret.op = "start_battle_cooldown_lock" => LockedAtBase
    /\ ret.op = "can_cast_active" /\ ret.team_turn < 2 * CostsOf(ret.skill_key).cooldown
          => ~ret.ok
    /\ CastAttempt /\ ret.team_turn < 2 * CostsOf(ret.skill_key).cooldown
          => ret.raised = "SkillCastError"

\* C30, the part that holds: the lock puts every owned skill at its base value
C30_LockSetsBase == ret.op = "start_battle_cooldown_lock" => LockedAtBase

\* C30, the part that holds: by the cooldowns the lock keeps, a skill of base
\* cooldown c is not ready before team-turn 2c
C30_NotReadyBeforeTicks ==
    InBattle =>
        \A sk \in Owned :
            team_turn < 2 * CostsOf(sk).cooldown =>
                TheCaster.skill_cooldowns[1][sk] > 0

C30_CastAtStartWitness ==
    /\ CastAttempt
    /\ ret.raised = ""
    /\ ret.team_turn = 0
    /\ ret.skill_key = "mend"
    /\ TheCaster.skill_cooldowns[1]["mend"] = 1

C30_ReadyAfterTicksWitness ==
    /\ InBattle
    /\ team_turn = 4
    /\ TheCaster.skill_cooldowns[1]["fireball"] = 0


----------------------------------------------------------------------------
(* Claims about battles that run side by side *)

\* the first battle has made all its moves, interleaved and alone
FirstOver == Moves(runs.first) = {} /\ Moves(runs.alone) = {}

\* C31 (as claimed): a battle whose moves are interleaved with those of another
\* battle ends with the same winner, the same log lines, the same targets and
\* the same random draws as the same battle run alone.
C31_InterleavingInvisible ==
    FirstOver =>
        /\ runs.first.bs.winner = runs.alone.bs.winner
        /\ runs.first.log = runs.alone.log
        /\ runs.first.picks = runs.alone.picks
        /\ runs.first.draws = runs.alone.draws
        /\ runs.first.seeded = runs.alone.seeded

\* what holds of C31: a move of one battle changes no field of the other
\* battle's BattleState
C31_StatesApart ==
    [][ /\ ret'.op = "second" => runs'.first.bs = runs.first.bs
        /\ ret'.op = "first" => runs'.second.bs = runs.second.bs ]_vars

\* what holds of C31: a battle is the battle run alone as long as the other one
\* has drawn nothing from the random module
C31_WithoutOtherDraws ==
    (FirstOver /\ runs.second.draws = << >>) =>
        (runs.first.log = runs.alone.log /\ runs.first.picks = runs.alone.picks)

\* two battles of one process whose picks were the second and the first
\* candidate, and the first and the second
C31_MixedPicksWitness ==
    /\ runs.first.draws = << 2, 1 >>
    /\ runs.second.draws = << 1, 2 >>

\* random.choice has drawn again: more outputs are consumed than picks made
C31_DrawnAgainWitness ==
    Len(runs.first.draws) + Len(runs.second.draws) < runs.random.pos


(* Claims about how long a status lasts *)

\* the status is on the unit with turns remaining
StatusActive ==
    /\ DurationKey \in DOMAIN TheUnit.statuses.m
    /\ IF TheUnit.statuses.form = "ints" THEN TheUnit.statuses.m[DurationKey] > 0
       ELSE IF TheUnit.statuses.form = "insts"
       THEN TheUnit.statuses.m[DurationKey].remaining > 0
       ELSE TRUE

\* C32: a status applied during team-turn Y with duration X is active through
\* team-turn Y + 2X - 1 and gone from the start of team-turn Y + 2X, for every
\* Y and every X >= 1
C32_ActiveForTwoXTurns ==
    phase = "applied" =>
        /\ team_turn <= inp.Y + (2 * inp.X) - 1 => StatusActive
        /\ team_turn >= inp.Y + (2 * inp.X) => ~StatusActive

\* C32, what the tick does to the remaining turns it is able to count down: the
\* status goes at the start of the X-th even team-turn after Y, which is
\* team-turn Y + 2X for an even Y and team-turn Y + 2X - 1 for an odd Y
C32_ExpiresOnEvenTurn ==
    (phase = "applied" /\ inp.how = "ints") =>
        (StatusActive <=> team_turn < 2 * ((inp.Y \div 2) + inp.X))

\* C32, the other two ways: a StatusInstance in the dict stops the tick with a
\* TypeError and stays, and apply_status leaves the unit without the new status
C32_InstancesNeverTicked ==
    /\ (phase = "applied" /\ inp.how = "insts") => StatusActive
    /\ (phase = "applied" /\ inp.how = "apply_status") => ~StatusActive

\* C32: a status applied in team-turn 1 with duration 1 is gone in team-turn 2
C32_OddTurnWitness ==
    /\ phase = "applied" /\ inp.how = "ints" /\ inp.Y = 1 /\ inp.X = 1
    /\ team_turn = 2 /\ ~StatusActive

\* C32: a status applied in team-turn 2 with duration 2 is active in team-turn 5
\* and gone in team-turn 6
C32_EvenTurnWitness ==
    /\ phase = "applied" /\ inp.how = "ints" /\ inp.Y = 2 /\ inp.X = 2
    /\ team_turn = 6 /\ ~StatusActive

\* C32: the tick raised on the StatusInstance
C32_TickRaisedWitness ==
    /\ phase = "applied" /\ inp.how = "insts" /\ ret.op = "begin_team_turn" /\ ret.err
    /\ team_turn > inp.Y + (2 * inp.X)


(* Claims about the AP gain of a unit that cannot act *)

\* the unit went into the team-turn with an active status of the kind
Carried(s, key) ==
    /\ key \in DOMAIN ret.before[<<"A", s>>][1].statuses.m
    /\ ret.before[<<"A", s>>][1].statuses.m[key].remaining > 0

\* the living units of team A as the team-turn started
LivingBefore == { s \in Slots : AliveAt(ret.before, "A", s) }

\* every active status the living units went into the team-turn with is of the
\* shipped catalogue
ShippedOnly ==
    \A s \in LivingBefore :
        \A key \in DOMAIN ret.before[<<"A", s>>][1].statuses.m :
            Carried(s, key) => key \in DOMAIN STATUS

\* the AP gain the unit has with the base delta of its statuses, rounded
UnblockedGain(s) ==
    FRound(_compute_ap_gain_with_status(ret.before[<<"A", s>>][1],
                                        ret.contexts[s].ap_gain_base_delta))

\* the unit has its frame, not blocking the gain, and has received its AP gain;
\* a stunned or immobilized one cannot act and is no actor
GainReceived(s) ==
    /\ ~ret.contexts[s].block_ap_gain
    /\ board[<<"A", s>>][1].ap = ret.before[<<"A", s>>][1].ap + UnblockedGain(s)
    /\ (Carried(s, "stun") \/ Carried(s, "immobilized")) =>
          /\ ~ret.contexts[s].can_act
          /\ ~InSeq(s, actors)

\* C33 (as claimed): whatever shipped statuses a living unit of the acting team
\* carries, its start-turn frame has block_ap_gain false and the unit receives
\* its AP gain in that team-turn; a stunned or immobilized one receives it too,
\* and is no actor
C33_GainNeverBlocked ==
    (ret.op = "start_team_turn" /\ ShippedOnly) =>
        \A s \in LivingBefore :
            /\ ret.raised = ""
            /\ s \in DOMAIN ret.contexts
            /\ GainReceived(s)

\* the part of C33 that holds: every frame start_team_turn has built leaves the
\* gain unblocked, and the call that returns has added the gain of every living
\* unit of the team, an immobilized one included, which is no actor
C33_BuiltFramesNeverBlock ==
    ret.op = "start_team_turn" =>
        /\ ret.raised = "" => DOMAIN ret.contexts = LivingBefore
        /\ \A s \in DOMAIN ret.contexts : GainReceived(s) /\ ~Carried(s, "stun")

\* the other part: the call raises ModuleNotFoundError exactly when a living
\* unit of the team carries an active stun or bleeding and no foreign status
\* has raised before; it has then added no AP and selected nobody
C33_HandlerImportRaises ==
    (ret.op = "start_team_turn" /\ ShippedOnly) =>
        /\ ret.raised = "ModuleNotFoundError" <=>
              \E s \in LivingBefore : Carried(s, "stun") \/ Carried(s, "bleeding")
        /\ ret.raised # "" =>
              /\ actors = << >>
              /\ \A s \in LivingBefore :
                    board[<<"A", s>>][1].ap = ret.before[<<"A", s>>][1].ap

\* C33: a stunned unit of the acting team: the call has raised, and neither the
\* unit nor its team-mate has gained AP
C33_StunnedWitness ==
    /\ ret.op = "start_team_turn"
    /\ Carried(1, "stun")
    /\ ~Carried(1, "immobilized")
    /\ ~Carried(1, "bleeding")
    /\ ret.raised = "ModuleNotFoundError"
    /\ \A s \in {1, 2} : board[<<"A", s>>][1].ap = ret.before[<<"A", s>>][1].ap
    /\ actors = << >>

\* C33: an immobilized and slowed unit has gained 90 AP
C33_ImmobilizedWitness ==
    /\ ret.op = "start_team_turn"
    /\ Carried(1, "immobilized")
    /\ Carried(1, "slow")
    /\ board[<<"A", 1>>][1].ap = ret.before[<<"A", 1>>][1].ap + 90
    /\ ~InSeq(1, actors)


(* Claims about the values drawn from the seeded sequence *)

\* the call left the generator where exactly one roll leaves it
OneValueConsumed == rng = RngRoll(ret.rng_before).st

\* the call left the generator as it found it
NoValueConsumed == rng = ret.rng_before

\* C34: resolving the multi-hit of an action consumes exactly one value of the
\* seeded sequence when the total rate is positive, a multiple of 100 included,
\* and none when the rate is <= 0; chance(p) consumes one value exactly when
\* 0 < p < 1 and none when p <= 0 or p >= 1
C34_ValuesConsumed ==
    /\ ret.op = "total_hits" =>
          IF FLt(FInt(0), inp.total_mhr) THEN OneValueConsumed ELSE NoValueConsumed
    /\ ret.op = "chance" =>
          IF FLt(FInt(0), inp.p) /\ FLt(inp.p, FInt(1))
          THEN OneValueConsumed ELSE NoValueConsumed

\* C34: a rate of 300 gave exactly 3 extra hits and moved the generator on
C34_Witness ==
    /\ ret.op = "total_hits"
    /\ inp.total_mhr = FInt(300)
    /\ ret.extra = 3
    /\ rng # ret.rng_before
    /\ OneValueConsumed

\* C34: chance(1/4) failed on its one draw; chance(1) succeeded without a draw
C34_ChanceWitness ==
    /\ ret.op = "chance"
    /\ inp.p = FLit(1, 4)
    /\ ~ret.out
    /\ rng # ret.rng_before

C34_CertainWitness ==
    /\ ret.op = "chance"
    /\ inp.p = FInt(1)
    /\ ret.out
    /\ rng = ret.rng_before


(* Claims about the four kinds of modifier line *)

\* the line counts for the stat under the tag
Counts(m, stat_key, tag) == m.stat = stat_key /\ NormTag(m.tag) = tag

\* the sum of the values of the lines that count, from line i on
RECURSIVE SumOfLines(_, _, _, _)
SumOfLines(mods, stat_key, tag, i) ==
    IF i > Len(mods) THEN 0
    ELSE (IF Counts(mods[i], stat_key, tag) THEN mods[i].value ELSE 0)
            + SumOfLines(mods, stat_key, tag, i + 1)

\* 1 + pct/100 in float arithmetic
OnePlusPct(pct) == FAdd(FInt(1), FDiv(FInt(pct), FInt(100)))

\* the product of 1 + value/100 over the more lines that count among the first
\* n, taken line by line
RECURSIVE ProductOfMore(_, _, _)
ProductOfMore(mods, stat_key, n) ==
    IF n = 0 THEN FInt(1)
    ELSE IF Counts(mods[n], stat_key, "more")
    THEN FMul(ProductOfMore(mods, stat_key, n - 1), OnePlusPct(mods[n].value))
    ELSE ProductOfMore(mods, stat_key, n - 1)

\* the product of 1 - |value|/100 over the less lines that count among the
\* first n, taken line by line
RECURSIVE ProductOfLess(_, _, _)
ProductOfLess(mods, stat_key, n) ==
    IF n = 0 THEN FInt(1)
    ELSE IF Counts(mods[n], stat_key, "less")
    THEN FMul(ProductOfLess(mods, stat_key, n - 1),
              FSub(FInt(1), FDiv(FInt(Abs(mods[n].value)), FInt(100))))
    ELSE ProductOfLess(mods, stat_key, n - 1)

\* (base + sum of base) x (1 + sum of inc/100) x product of more x product of
\* less, in float arithmetic from left to right
FourKinds(stat_key, base_value, mods) ==
    FMul(FMul(FMul(FAdd(base_value, FInt(SumOfLines(mods, stat_key, "base", 1))),
                   OnePlusPct(SumOfLines(mods, stat_key, "inc", 1))),
              ProductOfMore(mods, stat_key, Len(mods))),
         ProductOfLess(mods, stat_key, Len(mods)))

\* the list with the line put in before place i
WithLineAt(mods, m, i) == SubSeq(mods, 1, i - 1) \o << m >> \o SubSeq(mods, i, Len(mods))

\* the list with the sign of the value of line i turned
WithSignTurned(mods, i) == [mods EXCEPT ![i].value = -@]

\* lines that do not count for the stat under any of the four tags
IgnoredLines(stat_key) ==
    { m \in ModUniverse :
        m.stat # stat_key \/ NormTag(m.tag) \notin {"base", "inc", "more", "less"} }

\* a less line given as +v and as -v gives the same result, and a line with
\* another stat key or an unrecognized tag, put anywhere, changes nothing
LinesRelations ==
    /\ \A i \in 1 .. Len(inp.mods) :
          NormTag(inp.mods[i].tag) = "less" =>
              evaluate_stat(inp.stat_key, inp.base_value, WithSignTurned(inp.mods, i),
                            inp.clamp_min, inp.clamp_max) = ret.out
    /\ \A m \in IgnoredLines(inp.stat_key), i \in 1 .. (Len(inp.mods) + 1) :
          evaluate_stat(inp.stat_key, inp.base_value, WithLineAt(inp.mods, m, i),
                        inp.clamp_min, inp.clamp_max) = ret.out

\* C35: evaluate returns (base + sum of matching base) x (1 + sum of matching
\* inc/100) x product of (1 + more/100) x product of (1 - |less|/100); a less
\* line given as +v or -v gives the same result; a line with another stat key
\* or an unrecognized tag never changes the result
C35_FourKinds ==
    ret.op = "evaluate_stat" =>
        /\ ret.out = FourKinds(inp.stat_key, inp.base_value, inp.mods)
        /\ LinesRelations

\* C35 (amended): evaluate returns that product, changed only by the clamp to
\* [clamp_min, clamp_max] when given; the two relations hold as stated
C35_FourKindsClamped ==
    ret.op = "evaluate_stat" =>
        /\ ret.out = ClampedBase(FourKinds(inp.stat_key, inp.base_value, inp.mods),
                                 inp.clamp_min, inp.clamp_max)
        /\ LinesRelations

\* C35: 80 HP with a base line of 20 and a less line of +20 evaluate to 80
C35_Witness ==
    /\ ret.op = "evaluate_stat"
    /\ inp.stat_key = "hp"
    /\ inp.base_value = FInt(80)
    /\ inp.mods = << Mod("hp", "base", 20), Mod("hp", "less", 20) >>
    /\ inp.clamp_min = None /\ inp.clamp_max = None
    /\ ret.out = FInt(80)

\* C35: the clamp changed the product
C35_ClampWitness ==
    /\ ret.op = "evaluate_stat"
    /\ inp.mods = << Mod("hp", "inc", 50), Mod("hp", "ModTag.MORE", 20) >>
    /\ inp.stat_key = "hp"
    /\ inp.base_value = FInt(80)
    /\ inp.clamp_max = Some(FInt(60))
    /\ FourKinds(inp.stat_key, inp.base_value, inp.mods) = FInt(144)
    /\ ret.out = FInt(60)


(* Claims about retargeting within a line *)

\* the living slots of the line (column) of the slot asked for
LivingInLine ==
    { s \in AliveSet(board, AimedTeam(inp)) : SameLine(s, inp.preferred_slot[1]) }

\* a call under the frontline policy with retargeting allowed, for a slot that
\* is dead, empty or not exposed
RetargetAsked ==
    /\ Picked
    /\ inp.spec.location = "frontline"
    /\ inp.spec.allow_retarget
    /\ AskedIllegal

\* C36: under the frontline policy with retargeting allowed, when the slot asked
\* for is dead or not exposed and its line still holds a living unit, the target
\* is the foremost living slot of that line and nothing is drawn; a random or
\* first-candidate pick happens only when that line holds no living unit
C36_SameLineRetarget ==
    RetargetAsked =>
        /\ LivingInLine # {} =>
              /\ ret.team = Some(AimedTeam(inp))
              /\ ret.slot # None
              /\ ret.slot[1] \in LivingInLine
              /\ \A s \in LivingInLine : ret.slot[1] <= s
              /\ ret.reason = "retarget_same_line_exposed"
              /\ NothingDrawn
        /\ ret.reason \in {"retarget_random", "retarget_first", "random", "first"}
              => LivingInLine = {}

\* C36: slot 6 was asked for behind the living slot 3, and slot 3 came back
\* although a generator was handed in
C36_Witness ==
    /\ RetargetAsked
    /\ inp.preferred_slot = Some(6)
    /\ inp.rng # None
    /\ AliveSet(board, AimedTeam(inp)) = {2, 3, 6}
    /\ ret.slot = Some(3)
    /\ ret.reason = "retarget_same_line_exposed"

\* C36: the line of the slot asked for is empty and another line's slot is picked
C36_OtherLineWitness ==
    /\ RetargetAsked
    /\ inp.preferred_slot = Some(1)
    /\ inp.rng # None
    /\ AliveSet(board, AimedTeam(inp)) = {2, 6}
    /\ ret.slot = Some(6)
    /\ ret.reason = "retarget_random"


(* Claims about the AP adjustments of the equipment *)

\* the AP adjustments the catalogs give for the pieces of the build
EquippedDefs ==
    << WEAPONS[inp.build.main_weapon_key] >>
        \o (IF inp.build.offhand_key = None THEN << >>
            ELSE << OFFHANDS[inp.build.offhand_key[1]] >>)

RECURSIVE ApBaseOf(_, _)
ApBaseOf(defs, i) ==
    IF i > Len(defs) THEN 0 ELSE defs[i].ap_base_delta + ApBaseOf(defs, i + 1)

RECURSIVE ApFactorOf(_, _)
ApFactorOf(defs, i) ==
    IF i > Len(defs) THEN FInt(1)
    ELSE FMul(FMul(FLit(100 - defs[i].ap_less_pct, 100), FLit(100 + defs[i].ap_more_pct, 100)),
              ApFactorOf(defs, i + 1))

\* the base delta the unit's statuses give to the AP gain
StatusApDelta == IF inp.statuses = Chilled THEN -5 ELSE 0

\* (100 + base adjustments) x less and more adjustments, not below 0, rounded
AdjustedGain ==
    FRound(FMax(FInt(0),
                FMul(FInt(100 + ApBaseOf(EquippedDefs, 1) + StatusApDelta),
                     ApFactorOf(EquippedDefs, 1))))

\* C37 (as claimed): the AP gain of a team-turn reflects the AP adjustments of
\* the weapon and the offhand: with a Sword (-20 base AP) and a Shield (20% less
\* AP) and no other AP modifier the unit gains (100 - 20) x 0.8 = 64, not 100.
C37_EquipmentShapesGain ==
    ret.op = "start_team_turn" =>
        /\ ret.gain = AdjustedGain
        /\ TheUnit.ap = ret.ap_before + AdjustedGain

\* what the code does: recompute_stats raises and stores no snapshot, and
\* whatever the weapon and the offhand, the unit gains 100 AP plus the base
\* delta of its statuses
C37_AdjustmentsIgnored ==
    /\ ret.op = "recompute_stats" => (ret.err = "TypeError" /\ ret.st = None)
    /\ ret.op = "start_team_turn" =>
          /\ TheUnit.stats = None
          /\ ret.gain = 100 + StatusApDelta
          /\ TheUnit.ap = ret.ap_before + 100 + StatusApDelta


(* Claims about a cooldown that runs out *)

\* a check made when the ticks since the skill went on cooldown number at least
\* its cooldown
CheckedAfterCooldown(how) ==
    /\ ret.op = "can_cast_active"
    /\ runs.how = how
    /\ ret.ticks >= CostsOf(ret.skill_key).cooldown

\* C38: a skill put on cooldown c by a successful cast does not stay blocked:
\* after c two-turn ticks of the caster, and no new cast, the cooldown check of
\* can_cast_active passes again
C38_CooldownRunsOut ==
    CheckedAfterCooldown("cast") => ret.reason # "cooldown remaining"

\* C38, what the code does: after a cast the check answers "cooldown remaining"
\* however many ticks have passed, the value the cast set is never lowered
C38_BlockedForGood ==
    (ret.op = "can_cast_active" /\ runs.how = "cast") =>
        /\ ~ret.ok
        /\ ret.reason = "cooldown remaining"
        /\ CdOf(TheCaster, ret.skill_key) = CostsOf(ret.skill_key).cooldown

\* C38, the cooldown put_skill_on_cooldown sets: it is counted down by the
\* ticks, is_skill_ready follows it, and can_cast_active does not look at it
C38_PutCountsDown ==
    (ret.op = "can_cast_active" /\ runs.how = "put") =>
        /\ ret.ready <=> ret.ticks >= CostsOf(ret.skill_key).cooldown
        /\ ret.reason # "cooldown remaining"

\* C38: mend, cooldown 1, is still refused after three ticks
C38_StillBlockedWitness ==
    /\ CheckedAfterCooldown("cast")
    /\ ret.skill_key = "mend"
    /\ ret.ticks = 3
    /\ ret.reason = "cooldown remaining"

\* C38: fireball put on cooldown by put_skill_on_cooldown is ready after two ticks
C38_PutReadyWitness ==
    /\ CheckedAfterCooldown("put")
    /\ ret.skill_key = "fireball"
    /\ ret.ticks = 2
    /\ ret.ready


(* Claims about the two selections *)

\* C39: the selection step_team_turn makes inline and the selection of
\* start_team_turn agree: for every board, team and team-turn, with the same cap
\* and threshold, they pick the same units in the same order
C39_SelectionsAgree == ret.op = "select" => ret.engine = ret.plan

\* what the code does: the step raises in its AP gain phase and selects nobody,
\* whoever start_team_turn selects
C39_EngineRaises ==
    ret.op = "select" => (ret.raised = "TypeError" /\ ret.engine = << >>)


(* Claims about fallen units *)

HasFallen(id) == board[id] # None /\ FLe(board[id][1].hp, FInt(0))

\* no fallen unit is among the actors just selected
NoFallenSelected ==
    ret.op \in {"step_team_turn", "start_team_turn"} =>
        \A i \in 1 .. Len(actors) : ~HasFallen(<<ret.team, actors[i]>>)

\* can_cast_active turns a fallen caster down
FallenCasterRejected == (ret.op = "can_cast_active" /\ ~ret.alive) => ~ret.ok

\* C40 (as claimed): a dead unit (HP <= 0) never performs an action: it is never
\* selected as an actor and can_cast_active rejects a dead caster.
C40_DeadNeverActs == NoFallenSelected /\ FallenCasterRejected

\* what holds of C40: a dead unit is never selected
C40_DeadNeverSelected == NoFallenSelected

\* what the code does in the cast check: a fallen caster is answered as a standing one with the
\* same cooldowns, AP and MP would be
C40_FallenCasterAccepted ==
    (ret.op = "can_cast_active" /\ ~ret.alive /\ ret.skill_key = "mend") =>
        (ret.ok /\ ret.reason = "ok")

====
